---- MODULE Spec2Model ----
(***************************************************************************)
(* HouseProductionSuite: the lock-free state exchange between the UI       *)
(* thread and the audio thread of the RhythmEngine and MelodyEngine        *)
(* plug-ins (command ring buffer, authoritative pattern/phrase, try-lock   *)
(* snapshot), and the RhythmEngine step sequencer.                         *)
(*                                                                         *)
(* Floats that carry a level in [0,1] (velocity, probability, command      *)
(* value) are held in hundredths: 1.0f is 100, 0.5f is 50.                 *)
(***************************************************************************)
EXTENDS Integers, Sequences, FiniteSets, TLC

(***************************************************************************)
(* Program constants                                                       *)
(***************************************************************************)
NUM_STEPS == 16
NUM_TRACKS == 4
NUM_PHRASE_STEPS == 64

\* RhythmEngine::TrackId
Kick == 0
Bass == 1
Hat == 2
Clap == 3

Tracks == 0 .. (NUM_TRACKS - 1)
Steps == 0 .. (NUM_STEPS - 1)
PhraseSteps == 0 .. (NUM_PHRASE_STEPS - 1)

\* RhythmEngine::StepModifier / Melodic::NoteModifier
StepModifier == {"None", "Ratchet2", "Ratchet4", "Glide", "SkipCycle", "OnlyFirstCycle"}

(***************************************************************************)
(* Bounds of the model                                                     *)
(***************************************************************************)
\* Slots of the command ring buffer (juce::AbstractFifo commandFifo{1024} in
\* the program; the model keeps the ring arithmetic and shrinks the ring).
FifoSize == 2
\* Calls of queueCommand the UI makes in one behaviour.
MaxEnqueues == 2

Slots == 0 .. (FifoSize - 1)

Min(a, b) == IF a <= b THEN a ELSE b

(***************************************************************************)
(* Data model                                                              *)
(***************************************************************************)
\* RhythmEngine::Step with its default member initialisers
DefaultStep == [active |-> FALSE, velocity |-> 100, probability |-> 100, modifier |-> "None"]

\* RhythmEngine::Track with its default member initialisers
DefaultTrack == [steps |-> [s \in Steps |-> DefaultStep], midiNote |-> 36, name |-> ""]

\* RhythmEngine::Pattern, value-initialised (the state of patternSnapshot
\* after construction: no constructor code assigns it)
DefaultConstructedPattern == [tracks |-> [t \in Tracks |-> DefaultTrack]]

\* The track names and notes initializeDefaultPattern assigns
DefaultTrackName(t) ==
  CASE t = Kick -> "Kick" [] t = Clap -> "Clap" [] t = Hat -> "Hat" [] OTHER -> "Bass"

DefaultTrackNote(t) ==
  CASE t = Kick -> 36 [] t = Clap -> 38 [] t = Hat -> 42 [] OTHER -> 36

\* The steps initializeDefaultPattern switches on
DefaultActive(t, s) ==
  \/ t = Kick /\ s \in {0, 4, 8, 12}
  \/ t = Bass /\ s \in {2, 6, 10, 14}
  \/ t = Hat /\ s \in {2, 6, 10, 14}
  \/ t = Clap /\ s \in {4, 12}

\* The pattern RhythmEngineAudioProcessor::initializeDefaultPattern builds
InitializeDefaultPattern ==
  [tracks |-> [t \in Tracks |->
     [steps |-> [s \in Steps |->
                   [active |-> DefaultActive(t, s), velocity |-> 100,
                    probability |-> 100, modifier |-> "None"]],
      midiNote |-> DefaultTrackNote(t),
      name |-> DefaultTrackName(t)]]]

(***************************************************************************)
(* Scale quantizer (MelodyEngine)                                          *)
(***************************************************************************)
Abs(x) == IF x < 0 THEN -x ELSE x

\* The scale table the ScaleQuantizer constructor fills
ScaleNames == {"Minor", "Dorian", "Mixolydian", "Phrygian"}

scales(name) ==
  CASE name = "Minor" -> <<0, 2, 3, 5, 7, 8, 10>>
    [] name = "Dorian" -> <<0, 2, 3, 5, 7, 9, 10>>
    [] name = "Mixolydian" -> <<0, 2, 4, 5, 7, 9, 10>>
    [] name = "Phrygian" -> <<0, 1, 3, 5, 7, 8, 10>>

\* ScaleQuantizer::getScaleIntervals: unknown names fall back to Minor
getScaleIntervals(scaleType) ==
  IF scaleType \in ScaleNames THEN scales(scaleType) ELSE scales("Minor")

\* Mutant of QuantizeVisit: a later interval at the same distance replaces
\* the earlier one
QuantizeVisit_LastWins(best, relativeNote, interval) ==
  LET d1 == Abs(relativeNote - interval)
      b1 == IF d1 <= best.dist THEN [dist |-> d1, note |-> interval] ELSE best
      d2 == Abs(relativeNote - (interval + 12))
      b2 == IF d2 <= b1.dist THEN [dist |-> d2, note |-> interval] ELSE b1
      d3 == Abs(relativeNote - (interval - 12))
  IN IF d3 <= b2.dist THEN [dist |-> d3, note |-> interval] ELSE b2

\* One turn of the interval loop of quantize: best is [dist, note]
QuantizeVisit(best, relativeNote, interval) ==
  LET d1 == Abs(relativeNote - interval)
      b1 == IF d1 < best.dist THEN [dist |-> d1, note |-> interval] ELSE best
      d2 == Abs(relativeNote - (interval + 12))
      b2 == IF d2 < b1.dist THEN [dist |-> d2, note |-> interval] ELSE b1
      d3 == Abs(relativeNote - (interval - 12))
  IN IF d3 < b2.dist THEN [dist |-> d3, note |-> interval] ELSE b2

RECURSIVE QuantizeLoop(_, _, _, _)
QuantizeLoop(intervals, i, best, relativeNote) ==
  IF i > Len(intervals) THEN best
  ELSE QuantizeLoop(intervals, i + 1, QuantizeVisit(best, relativeNote, intervals[i]),
                    relativeNote)

\* juce::jlimit
jlimit(lo, hi, v) == IF v < lo THEN lo ELSE IF v > hi THEN hi ELSE v

\* Mutant of quantize: a result in the wrong octave is not moved back
quantize_NoOctaveShift(midiNote, rootNote, scaleType) ==
  LET intervals == getScaleIntervals(scaleType)
      octave == midiNote \div 12
      rootInOctave == rootNote % 12
      relativeNote == ((midiNote % 12) - rootInOctave + 12) % 12
      best == QuantizeLoop(intervals, 1, [dist |-> 12, note |-> 0], relativeNote)
  IN jlimit(0, 127, (octave * 12) + rootInOctave + best.note)

\* Mutant of quantize: the note is not taken relative to the root
quantize_RootNotSubtracted(midiNote, rootNote, scaleType) ==
  LET intervals == getScaleIntervals(scaleType)
      octave == midiNote \div 12
      rootInOctave == rootNote % 12
      relativeNote == midiNote % 12
      best == QuantizeLoop(intervals, 1, [dist |-> 12, note |-> 0], relativeNote)
      result == (octave * 12) + rootInOctave + best.note
      shifted == IF Abs(result - midiNote) > 6
                 THEN (IF result > midiNote THEN result - 12 ELSE result + 12)
                 ELSE result
  IN jlimit(0, 127, shifted)

\* ScaleQuantizer::quantize, for midiNote >= 0 and rootNote >= 0
quantize(midiNote, rootNote, scaleType) ==
  LET intervals == getScaleIntervals(scaleType)
      octave == midiNote \div 12
      noteInOctave == midiNote % 12
      rootInOctave == rootNote % 12
      relativeNote == (noteInOctave - rootInOctave + 12) % 12
      best == QuantizeLoop(intervals, 1, [dist |-> 12, note |-> 0], relativeNote)
      result == (octave * 12) + rootInOctave + best.note
      shifted == IF Abs(result - midiNote) > 6
                 THEN (IF result > midiNote THEN result - 12 ELSE result + 12)
                 ELSE result
  IN jlimit(0, 127, shifted)

(***************************************************************************)
(* Melodic data model                                                      *)
(***************************************************************************)
\* Melodic::NoteEvent with its default member initialisers (duration in
\* hundredths of a beat)
DefaultNoteEvent ==
  [pitch |-> 60, velocity |-> 100, duration |-> 25, probability |-> 100,
   active |-> FALSE, modifier |-> "None"]

\* Melodic::Phrase, default-constructed (the state of phraseSnapshot after
\* construction)
DefaultConstructedPhrase ==
  [events |-> [i \in PhraseSteps |-> DefaultNoteEvent], rootNote |-> 60, scaleName |-> "Minor"]

\* int triad[] = {0, 3, 7, 12}
Triad == <<0, 3, 7, 12>>

\* The phrase MelodyEngineAudioProcessor::initializeDefaultPhrase builds
InitializeDefaultPhrase ==
  [events |-> [i \in PhraseSteps |->
     IF i % 2 = 0
     THEN [pitch |-> quantize(60 + Triad[((i \div 2) % 4) + 1], 60, "Minor"),
           velocity |-> 80, duration |-> 25, probability |-> 100,
           active |-> TRUE, modifier |-> "None"]
     ELSE DefaultNoteEvent],
   rootNote |-> 60, scaleName |-> "Minor"]

(***************************************************************************)
(* juce::AbstractFifo, as the two plug-ins use it (commandFifo)            *)
(***************************************************************************)
\* commandFifo.getNumReady reporting one command less than are ready
GetNumReady_OneLess(vs, ve) ==
  IF ve = vs THEN 0 ELSE (IF ve >= vs THEN ve - vs ELSE FifoSize - (vs - ve)) - 1

\* AbstractFifo::getNumReady
GetNumReady(vs, ve) == IF ve >= vs THEN ve - vs ELSE FifoSize - (vs - ve)

\* AbstractFifo::prepareToWrite: one slot is always kept free
PrepareToWrite(numToWrite, vs, ve) ==
  LET freeSpace == IF ve >= vs THEN FifoSize - (ve - vs) ELSE vs - ve
      n == Min(numToWrite, freeSpace - 1)
  IN IF n <= 0
     THEN [startIndex1 |-> 0, blockSize1 |-> 0, startIndex2 |-> 0, blockSize2 |-> 0]
     ELSE LET b1 == Min(FifoSize - ve, n)
              rest == n - b1
          IN [startIndex1 |-> ve, blockSize1 |-> b1, startIndex2 |-> 0,
              blockSize2 |-> IF rest <= 0 THEN 0 ELSE Min(rest, vs)]

\* AbstractFifo::prepareToRead
PrepareToRead(numWanted, vs, ve) ==
  LET n == Min(numWanted, GetNumReady(vs, ve))
  IN IF n <= 0
     THEN [startIndex1 |-> 0, blockSize1 |-> 0, startIndex2 |-> 0, blockSize2 |-> 0]
     ELSE LET b1 == Min(FifoSize - vs, n)
              rest == n - b1
          IN [startIndex1 |-> vs, blockSize1 |-> b1, startIndex2 |-> 0,
              blockSize2 |-> IF rest <= 0 THEN 0 ELSE Min(rest, ve)]

\* AbstractFifo::finishedWrite / finishedRead: advance a cursor, wrapping
AdvanceCursor(cursor, n) ==
  IF cursor + n >= FifoSize THEN cursor + n - FifoSize ELSE cursor + n

NoBlocks == [startIndex1 |-> 0, blockSize1 |-> 0, startIndex2 |-> 0, blockSize2 |-> 0]

\* The slots a ScopedRead / ScopedWrite covers, in order
RECURSIVE Range(_, _)
Range(start, count) == IF count <= 0 THEN <<>> ELSE <<start>> \o Range(start + 1, count - 1)

BlockSlots(b) == Range(b.startIndex1, b.blockSize1) \o Range(b.startIndex2, b.blockSize2)

(***************************************************************************)
(* State                                                                   *)
(***************************************************************************)
VARIABLES
  plugin,            \* which plug-in the host has loaded
  \* RhythmEngineAudioProcessor / SequencerGridComponent
  pattern,           \* authoritative pattern (audio thread)
  patternSnapshot,   \* copy published for the UI
  patternDirty,      \* std::atomic<bool> patternDirty
  patternMutex,      \* holder of patternMutex: "free", "ui" or "audio"
  cachedPattern,     \* SequencerGridComponent::cachedPattern
  \* MelodyEngineAudioProcessor / MelodyCanvasComponent
  phrase, phraseSnapshot, phraseDirty, phraseMutex, cachedPhrase,
  \* command queue (same members in both processors)
  commandBuffer,     \* std::array<Command, N> commandBuffer
  validStart,        \* commandFifo read cursor
  validEnd,          \* commandFifo write cursor
  \* UI thread
  uiPc,              \* position of the UI thread
  uiCmd,             \* the command queueCommand is writing
  writer,            \* the ScopedWrite of the queueCommand in progress
  \* audio thread
  aPc,               \* position of the audio thread inside processBlock
  numToDo,           \* processBlock local
  reader,            \* the ScopedRead of the drain in progress
  \* transport and sequencer state (audio thread)
  hostTime,          \* host play head: sample time of the next block
  lastProcessedSampleTime, currentBpm, currentStepAtomic, currentLoopCount,
  lastStepForLoopDetection, ratchetCounters,
  triggers,          \* history: env.trigger() calls made by the sequencer, per track
  boundaries,        \* history: step boundaries detected since the transport started
  fired,             \* history: voice triggers since the transport started, in call order
  lastBlock,         \* history of the last block: boundaries detected in it, its
                     \* random draws if it detected one, all samples rendered or
                     \* not, the calls it made on the melody synth, in order,
                     \* the heap objects it allocated, the indices with which the
                     \* rhythm sample loop read pattern.tracks[t].steps
  playStart,         \* history: <<sample time at which the transport started>>, or <<>>
  stops,             \* history: number of times a playing transport was stopped
  envelope,          \* one djstih::AdsrEnvelope, followed sample by sample through
                     \* its own interface; the block actions above count trigger()
                     \* calls in triggers and fired and leave its level alone
  kickPhasor,        \* one djstih::Phasor, driven through its own interface,
                     \* with the arguments and the result of its last call
  stutterFX,         \* the djstih::StutterFX of the rhythm engine, with the
                     \* history of the sample that last ran through it
  \* saved plug-in state (host side)
  savedState,
  \* history of the command queue
  enqueued,          \* number of queueCommand calls so far
  accepted,          \* commands whose write was finished, in order
  consumed,          \* commands the drain has read, in order
  dropped,           \* commands queueCommand did not store
  drainStart,        \* Len(accepted) when the current block read getNumReady
  lastPublished      \* the authoritative copy as the last publish found it

rhythmVars == <<pattern, patternSnapshot, patternDirty, patternMutex, cachedPattern>>
melodyVars == <<phrase, phraseSnapshot, phraseDirty, phraseMutex, cachedPhrase>>
fifoVars == <<commandBuffer, validStart, validEnd>>
uiVars == <<uiPc, uiCmd, writer>>
audioVars == <<aPc, numToDo, reader>>
seqVars == <<hostTime, lastProcessedSampleTime, currentBpm, currentStepAtomic,
             currentLoopCount, lastStepForLoopDetection, ratchetCounters, triggers,
             boundaries, fired, lastBlock, playStart, stops, envelope, kickPhasor,
             stutterFX>>
histVars == <<enqueued, accepted, consumed, dropped, drainStart, lastPublished>>

vars == <<plugin, rhythmVars, melodyVars, fifoVars, uiVars, audioVars, seqVars,
          savedState, histVars>>

Rhythm == "RhythmEngine"
Melody == "MelodyEngine"

\* A slot of commandBuffer nothing has been written to yet
EmptySlot ==
  [type |-> "Unwritten", trackIdx |-> 0, stepIdx |-> 0, value |-> 0, modifierValue |-> "None",
   eventData |-> DefaultNoteEvent, id |-> -1]

NoCommand == [type |-> "None", id |-> -1]

(***************************************************************************)
(* Commands                                                                *)
(***************************************************************************)
\* The cells the modelled grid clicks land on: one the default pattern has
\* switched on, one it has switched off, in different halves of the pattern
ClickCells == {<<Kick, 0>>, <<Clap, 1>>}

RhythmCmd(type, t, s, v, m) ==
  [type |-> type, trackIdx |-> t, stepIdx |-> s, value |-> v, modifierValue |-> m]

\* Other RhythmCommands callers of queueCommand pass, in and out of range
RawRhythmCommands ==
  { RhythmCmd("UpdateVelocity", Kick, 0, 50, "None"),
    RhythmCmd("ToggleStep", NUM_TRACKS, 0, 100, "None"),
    RhythmCmd("UpdateVelocity", Kick, -1, 50, "None") }

\* The steps the modelled canvas drags and right clicks land on: the first
\* and the last, in different halves of the phrase
ClickSteps == {0, NUM_PHRASE_STEPS - 1}
DeleteSteps == {0}

MelodyCmd(s, e) == [type |-> "SetEvent", stepIdx |-> s, eventData |-> e]

\* MelodyCommands with an index outside the phrase
RawMelodyCommands ==
  { MelodyCmd(-1, [DefaultNoteEvent EXCEPT !.active = TRUE]),
    MelodyCmd(NUM_PHRASE_STEPS, [DefaultNoteEvent EXCEPT !.active = TRUE]) }

WithId(cmd, n) == [f \in (DOMAIN cmd) \cup {"id"} |-> IF f = "id" THEN n ELSE cmd[f]]

(***************************************************************************)
(* Initial state: both objects as their constructors leave them            *)
(***************************************************************************)
\* The value the members of the plug-in that is not loaded are given
NotLoaded == "not loaded"

\* RhythmEngineAudioProcessor() runs initializeDefaultPattern() and leaves
\* patternSnapshot as default-constructed; SequencerGridComponent's
\* cachedPattern starts default-constructed too
InitRhythm ==
  IF plugin = Rhythm
  THEN /\ pattern = InitializeDefaultPattern
       /\ patternSnapshot = DefaultConstructedPattern
       /\ patternDirty = FALSE
       /\ patternMutex = "free"
       /\ cachedPattern = DefaultConstructedPattern
  ELSE /\ pattern = NotLoaded
       /\ patternSnapshot = NotLoaded
       /\ patternDirty = FALSE
       /\ patternMutex = "free"
       /\ cachedPattern = NotLoaded

\* MelodyEngineAudioProcessor() runs initializeDefaultPhrase() and leaves
\* phraseSnapshot as default-constructed
InitMelody ==
  IF plugin = Melody
  THEN /\ phrase = InitializeDefaultPhrase
       /\ phraseSnapshot = DefaultConstructedPhrase
       /\ phraseDirty = FALSE
       /\ phraseMutex = "free"
       /\ cachedPhrase = DefaultConstructedPhrase
  ELSE /\ phrase = NotLoaded
       /\ phraseSnapshot = NotLoaded
       /\ phraseDirty = FALSE
       /\ phraseMutex = "free"
       /\ cachedPhrase = NotLoaded

InitExchange ==
  /\ InitRhythm
  /\ InitMelody
  /\ commandBuffer = [i \in Slots |-> EmptySlot]
  /\ validStart = 0
  /\ validEnd = 0
  /\ uiPc = "idle"
  /\ uiCmd = NoCommand
  /\ writer = NoBlocks
  /\ aPc = "idle"
  /\ numToDo = 0
  /\ reader = NoBlocks
  /\ savedState = [type |-> "None"]
  /\ enqueued = 0
  /\ accepted = <<>>
  /\ consumed = <<>>
  /\ dropped = {}
  /\ drainStart = 0
  /\ lastPublished = IF plugin = Rhythm THEN DefaultConstructedPattern
                     ELSE DefaultConstructedPhrase

\* The history of a block without a step boundary whose samples all reached
\* the voices
QuietBlock ==
  [detected |-> 0, draws |-> [t \in Tracks |-> 0], renderedAll |-> TRUE, calls |-> <<>>,
   allocated |-> <<>>, stepIndices |-> {}]

\* No block rendered yet
NoBlock == [QuietBlock EXCEPT !.renderedAll = FALSE]

(***************************************************************************)
(* djstih::AdsrEnvelope.  Levels, rates and coefficients are fixed-point   *)
(* numbers in units of 1 / LevelOne; times are in milliseconds.            *)
(***************************************************************************)
LevelOne == 500000

\* a / b rounded to the nearest integer, for a >= 0 and b > 0
Rounded(a, b) == (2 * a + b) \div (2 * b)

\* The members of AdsrEnvelope as its default member initializers leave
\* them: attackRate 0.1, decayCoeff 0.99.  sinceTrigger and retuned are
\* history: the samples produced since the last trigger(), and whether
\* setParameters was called in between
DefaultEnvelope ==
  [state |-> "Idle", sampleRate |-> 48000, currentLevel |-> 0,
   attackRate |-> LevelOne \div 10, decayCoeff |-> (LevelOne \div 100) * 99,
   sinceTrigger |-> 0, retuned |-> FALSE]

\* AdsrEnvelope::setSampleRate
setSampleRate(env, newSampleRate) == [env EXCEPT !.sampleRate = newSampleRate]

\* AdsrEnvelope::setParameters: attackRate = 1 / (attackTimeSec * sampleRate
\* + 1), and decayCoeff = exp(-1 / (decayTimeSec * sampleRate)) by the series
\* 1 - x + x^2 / 2 for x = 1 / (decayTimeSec * sampleRate), whose next term is
\* below a thousandth of a level unit for x <= 1/400
setParameters(env, attackMs, decayMs) ==
  LET x == Rounded(LevelOne * 1000, decayMs * env.sampleRate)
  IN [env EXCEPT
        !.attackRate = Rounded(LevelOne * 1000, attackMs * env.sampleRate + 1000),
        !.decayCoeff = LevelOne - x + Rounded(x * x, 2 * LevelOne),
        !.retuned = env.state # "Idle"]

\* AdsrEnvelope::trigger without the reset of the level
trigger_KeepsLevel(env) ==
  [env EXCEPT !.state = "Attack", !.sinceTrigger = 0, !.retuned = FALSE]

\* AdsrEnvelope::trigger
trigger(env) ==
  [env EXCEPT !.state = "Attack", !.currentLevel = 0,
              !.sinceTrigger = 0, !.retuned = FALSE]

\* currentLevel *= decayCoeff: the product rounded to the nearest level
\* unit, computed as the level less the rounded decrement
Decayed(level, coeff) == level - Rounded(level * (LevelOne - coeff), LevelOne)

\* AdsrEnvelope::getNextSample without the clamp of the Attack case
getNextSample_NoClamp(env) ==
  LET next ==
        CASE env.state = "Idle" -> [env EXCEPT !.currentLevel = 0]
          [] env.state = "Attack" ->
               LET level == env.currentLevel + env.attackRate
               IN IF level >= LevelOne
                  THEN [env EXCEPT !.currentLevel = level, !.state = "Decay"]
                  ELSE [env EXCEPT !.currentLevel = level]
          [] env.state = "Decay" ->
               LET level == Decayed(env.currentLevel, env.decayCoeff)
               IN IF level < LevelOne \div 1000
                  THEN [env EXCEPT !.currentLevel = 0, !.state = "Idle"]
                  ELSE [env EXCEPT !.currentLevel = level]
          [] OTHER -> env
  IN [next EXCEPT !.sinceTrigger = IF next.state = "Idle" THEN 0 ELSE @ + 1]

\* AdsrEnvelope::getNextSample: the envelope after the call; the value
\* returned is its currentLevel
getNextSample(env) ==
  LET next ==
        CASE env.state = "Idle" -> [env EXCEPT !.currentLevel = 0]
          [] env.state = "Attack" ->
               LET level == env.currentLevel + env.attackRate
               IN IF level >= LevelOne
                  THEN [env EXCEPT !.currentLevel = LevelOne, !.state = "Decay"]
                  ELSE [env EXCEPT !.currentLevel = level]
          [] env.state = "Decay" ->
               LET level == Decayed(env.currentLevel, env.decayCoeff)
               IN IF level < LevelOne \div 1000
                  THEN [env EXCEPT !.currentLevel = 0, !.state = "Idle"]
                  ELSE [env EXCEPT !.currentLevel = level]
          [] OTHER -> env
  IN [next EXCEPT !.sinceTrigger = IF next.state = "Idle" THEN 0 ELSE @ + 1]

\* The sample rate of the phasor runs, in Hz; a phase is counted in units of
\* 1 / PhasorRate, so that a frequency of f Hz advances it by f units and
\* 1.0 is PhasorRate units
PhasorRate == 8

\* Phasor() = default: phase 0.0; no call made yet
DefaultPhasor == [phase |-> 0, call |-> <<>>, before |-> 0, returned |-> 0]

\* Phasor::process: phase += frequencyHz / sampleRate under the guard
\* sampleRate > 0, one subtraction of 1.0 if the sum is >= 1.0; the phase is
\* returned. call, before and returned record the call
process(phasor, frequencyHz, sampleRate) ==
  LET phase == IF sampleRate > 0
               THEN LET advanced == phasor.phase + (frequencyHz * PhasorRate) \div sampleRate
                    IN IF advanced >= PhasorRate THEN advanced - PhasorRate ELSE advanced
               ELSE phasor.phase
  IN [phase |-> phase, call |-> <<frequencyHz, sampleRate>>,
      before |-> phasor.phase, returned |-> phase]

\* Phasor::reset
reset(phasor) == [phasor EXCEPT !.phase = 0, !.call = <<>>, !.before = 0, !.returned = 0]

\* StutterFX() = default, before prepare(): an empty circular buffer. A
\* sample is known by its number in the stream, from 1; 0 is a cleared
\* slot. History: clock counts the samples of the blocks so far, high says
\* whether the last block found the parameter above 0.5, activations counts
\* the activate() calls since the parameter last went up, captured lists the
\* samples captured since the last activate(), played counts the samples
\* output from the loop since then, trace lists the samples of the last
\* block
DefaultStutterFX ==
  [circularBuffer |-> <<>>, sampleRate |-> 44100, writePosition |-> 0,
   readPosition |-> 0, loopLength |-> 0, capturedSamples |-> 0,
   isCapturing |-> FALSE, isPlaying |-> FALSE,
   clock |-> 0, high |-> FALSE, activations |-> 0, captured |-> <<>>, played |-> 0,
   trace |-> <<>>]

\* StutterFX::prepare for a positive sample rate: one second of buffer
prepare(fx, sampleRate) ==
  [fx EXCEPT !.sampleRate = sampleRate,
             !.circularBuffer = [i \in 1 .. sampleRate |-> 0],
             !.writePosition = 0, !.readPosition = 0, !.loopLength = 0,
             !.isCapturing = FALSE, !.isPlaying = FALSE]

\* StutterFX::setDivision(Division::Sixteenth, bpm): a sixteenth note is
\* sampleRate / (bpm / 60) / 4 samples, cut to an int and to the buffer
setDivision(fx, bpm) ==
  IF bpm <= 0 \/ fx.sampleRate <= 0
  THEN [fx EXCEPT !.isPlaying = FALSE, !.loopLength = 0]
  ELSE [fx EXCEPT !.loopLength =
          IF Len(fx.circularBuffer) > 0
          THEN Min((fx.sampleRate * 15) \div bpm, Len(fx.circularBuffer))
          ELSE 0]

\* StutterFX::activate that keeps capturedSamples
activate_KeepsCount(fx, bpm) ==
  LET divided == setDivision(fx, bpm)
  IN IF divided.loopLength > 0
     THEN [divided EXCEPT !.isCapturing = TRUE, !.readPosition = 0,
                          !.activations = @ + 1, !.captured = <<>>, !.played = 0]
     ELSE [divided EXCEPT !.activations = @ + 1]

\* StutterFX::activate
activate(fx, bpm) ==
  LET divided == setDivision(fx, bpm)
  IN IF divided.loopLength > 0
     THEN [divided EXCEPT !.isCapturing = TRUE, !.capturedSamples = 0,
                          !.readPosition = 0,
                          !.activations = @ + 1, !.captured = <<>>, !.played = 0]
     ELSE [divided EXCEPT !.activations = @ + 1]

\* StutterFX::deactivate
deactivate(fx) == [fx EXCEPT !.isPlaying = FALSE, !.isCapturing = FALSE]

\* StutterFX::isActive
isActive(fx) == fx.isPlaying \/ fx.isCapturing

\* One iteration of the sample loop of StutterFX::process on the sample
\* input: the capture branch, then the play branch
StutterFX_sample(fx, input) ==
  LET bufferLen == Len(fx.circularBuffer)
      capturing == fx.isCapturing /\ fx.loopLength > 0
      written == (fx.writePosition + 1) % bufferLen
      completed == capturing /\ fx.capturedSamples + 1 >= fx.loopLength
      c == IF capturing
           THEN [fx EXCEPT
                   !.circularBuffer[fx.writePosition + 1] = input,
                   !.writePosition = written,
                   !.capturedSamples = @ + 1,
                   !.isCapturing = ~completed,
                   !.isPlaying = IF completed THEN TRUE ELSE @,
                   !.readPosition =
                     IF completed
                     THEN (written - fx.loopLength + bufferLen) % bufferLen
                     ELSE @,
                   !.captured = Append(@, input)]
           ELSE fx
      playing == c.isPlaying /\ c.loopLength > 0 /\ bufferLen > 0
      loopStart == (c.writePosition - c.loopLength + bufferLen) % bufferLen
      offsetInLoop ==
        (((c.readPosition - loopStart + bufferLen) % bufferLen) + 1) % c.loopLength
      p == IF playing
           THEN [c EXCEPT !.readPosition = (loopStart + offsetInLoop) % bufferLen,
                          !.played = @ + 1]
           ELSE c
  IN [p EXCEPT !.trace =
        Append(@, [input |-> input,
                   output |-> IF playing THEN c.circularBuffer[c.readPosition + 1]
                              ELSE input,
                   capturing |-> capturing, completed |-> completed,
                   playing |-> playing, loopIndex |-> c.played,
                   isCapturing |-> p.isCapturing, isPlaying |-> p.isPlaying,
                   writePosition |-> p.writePosition,
                   readPosition |-> p.readPosition])]

\* StutterFX::process on the numSamples samples after sample number clock
RECURSIVE StutterFX_process(_, _, _)
StutterFX_process(fx, clock, numSamples) ==
  IF numSamples = 0 \/ Len(fx.circularBuffer) <= 0 THEN fx
  ELSE StutterFX_process(StutterFX_sample(fx, clock + 1), clock + 1, numSamples - 1)

InitSequencer ==
  /\ hostTime = 0
  /\ lastProcessedSampleTime = -1
  /\ currentBpm = 120
  /\ currentStepAtomic = -1
  /\ currentLoopCount = 0
  /\ lastStepForLoopDetection = -1
  /\ ratchetCounters = [t \in Tracks |-> 0]
  /\ triggers = [t \in Tracks |-> 0]
  /\ boundaries = <<>>
  /\ fired = <<>>
  /\ lastBlock = NoBlock
  /\ envelope = DefaultEnvelope
  /\ kickPhasor = DefaultPhasor
  /\ stutterFX = DefaultStutterFX
  /\ playStart = <<>>
  /\ stops = 0

(***************************************************************************)
(* Snapshot copies. Pattern and Phrase are copied member by member; the    *)
(* model copies them in two parts, so that a copy can be observed half     *)
(* done.                                                                   *)
(***************************************************************************)
FirstTracks == {t \in Tracks : t < NUM_TRACKS \div 2}
FirstEvents == {i \in PhraseSteps : i < NUM_PHRASE_STEPS \div 2}

CopyTracks(dst, src, ts) ==
  [tracks |-> [t \in Tracks |-> IF t \in ts THEN src.tracks[t] ELSE dst.tracks[t]]]

CopyEvents(dst, src, es) ==
  [dst EXCEPT !.events = [i \in PhraseSteps |-> IF i \in es THEN src.events[i] ELSE @[i]]]

\* the second part of a Phrase copy: the remaining events, rootNote, scaleName
CopyPhraseRest(dst, src) ==
  [events |-> [i \in PhraseSteps |-> IF i \in FirstEvents THEN dst.events[i] ELSE src.events[i]],
   rootNote |-> src.rootNote, scaleName |-> src.scaleName]

\* Mutant of CanLock: the mutex excludes nobody
CanLock_Always(mutex) == TRUE

\* std::mutex: lock() and a successful try_lock() need the mutex free
CanLock(mutex) == mutex = "free"

(***************************************************************************)
(* UI thread: getGuiSnapshot (called by paint and by the component         *)
(* constructors)                                                           *)
(***************************************************************************)
\* std::lock_guard<std::mutex> lock(patternMutex): waits while it is held
GetGuiSnapshot_Lock ==
  /\ uiPc = "idle"
  /\ IF plugin = Rhythm
     THEN /\ CanLock(patternMutex)
          /\ patternMutex' = "ui"
          /\ UNCHANGED phraseMutex
     ELSE /\ CanLock(phraseMutex)
          /\ phraseMutex' = "ui"
          /\ UNCHANGED patternMutex
  /\ uiPc' = "gsCopy1"
  /\ UNCHANGED <<plugin, pattern, patternSnapshot, patternDirty, cachedPattern,
                 phrase, phraseSnapshot, phraseDirty, cachedPhrase,
                 fifoVars, uiCmd, writer, audioVars, seqVars, savedState, histVars>>

\* target = patternSnapshot, first part
GetGuiSnapshot_Copy1 ==
  /\ uiPc = "gsCopy1"
  /\ IF plugin = Rhythm
     THEN /\ cachedPattern' = CopyTracks(cachedPattern, patternSnapshot, FirstTracks)
          /\ UNCHANGED cachedPhrase
     ELSE /\ cachedPhrase' = CopyEvents(cachedPhrase, phraseSnapshot, FirstEvents)
          /\ UNCHANGED cachedPattern
  /\ uiPc' = "gsCopy2"
  /\ UNCHANGED <<plugin, pattern, patternSnapshot, patternDirty, patternMutex,
                 phrase, phraseSnapshot, phraseDirty, phraseMutex,
                 fifoVars, uiCmd, writer, audioVars, seqVars, savedState, histVars>>

\* target = patternSnapshot, second part
GetGuiSnapshot_Copy2 ==
  /\ uiPc = "gsCopy2"
  /\ IF plugin = Rhythm
     THEN /\ cachedPattern' = CopyTracks(cachedPattern, patternSnapshot, Tracks \ FirstTracks)
          /\ UNCHANGED cachedPhrase
     ELSE /\ cachedPhrase' = CopyPhraseRest(cachedPhrase, phraseSnapshot)
          /\ UNCHANGED cachedPattern
  /\ uiPc' = "gsUnlock"
  /\ UNCHANGED <<plugin, pattern, patternSnapshot, patternDirty, patternMutex,
                 phrase, phraseSnapshot, phraseDirty, phraseMutex,
                 fifoVars, uiCmd, writer, audioVars, seqVars, savedState, histVars>>

\* the lock_guard's destructor
GetGuiSnapshot_Unlock ==
  /\ uiPc = "gsUnlock"
  /\ IF plugin = Rhythm
     THEN patternMutex' = "free" /\ UNCHANGED phraseMutex
     ELSE phraseMutex' = "free" /\ UNCHANGED patternMutex
  /\ uiPc' = "idle"
  /\ UNCHANGED <<plugin, pattern, patternSnapshot, patternDirty, cachedPattern,
                 phrase, phraseSnapshot, phraseDirty, cachedPhrase,
                 fifoVars, uiCmd, writer, audioVars, seqVars, savedState, histVars>>

\* commandFifo.write(1) advancing the write cursor when the block is claimed
\* instead of when the ScopedWrite is destroyed
BeginWrite_PublishesFirst(cmd, origin) ==
  /\ uiCmd' = WithId(cmd, enqueued)
  /\ enqueued' = enqueued + 1
  /\ writer' = PrepareToWrite(1, validStart, validEnd)
  /\ validEnd' = AdvanceCursor(validEnd, writer'.blockSize1 + writer'.blockSize2)
  /\ uiPc' = origin
  /\ UNCHANGED <<plugin, rhythmVars, melodyVars, commandBuffer, validStart, audioVars,
                 seqVars, savedState, accepted, consumed, dropped, drainStart,
                 lastPublished>>

(***************************************************************************)
(* UI thread: queueCommand and its callers                                 *)
(***************************************************************************)
\* auto writer = commandFifo.write(1), entered with command cmd; origin is
\* the UI position to return to once the write is finished
BeginWrite(cmd, origin) ==
  /\ uiCmd' = WithId(cmd, enqueued)
  /\ enqueued' = enqueued + 1
  /\ writer' = PrepareToWrite(1, validStart, validEnd)
  /\ uiPc' = origin
  /\ UNCHANGED <<plugin, rhythmVars, melodyVars, fifoVars, audioVars, seqVars,
                 savedState, accepted, consumed, dropped, drainStart, lastPublished>>

\* SequencerGridComponent::mouseDown without shift, on cell (t, s): the new
\* state is the negation of the cached one
MouseDown(t, s) ==
  /\ plugin = Rhythm
  /\ uiPc = "idle"
  /\ enqueued < MaxEnqueues
  /\ t \in Tracks /\ s \in Steps
  /\ LET isNowActive == ~cachedPattern.tracks[t].steps[s].active
     IN BeginWrite(RhythmCmd("ToggleStep", t, s, IF isNowActive THEN 100 ELSE 0, "None"),
                   "mouseDownCopy")

\* RhythmEngineAudioProcessor::queueCommand called with any other command:
\* it has no check of the indices
QueueCommand(cmd) ==
  /\ plugin = Rhythm
  /\ uiPc = "idle"
  /\ enqueued < MaxEnqueues
  /\ BeginWrite(cmd, "qcCopy")

\* Melodic index check of MelodyEngineAudioProcessor::queueCommand
MelodyIndexOk(cmd) == ~(cmd.stepIdx < 0 \/ cmd.stepIdx >= NUM_PHRASE_STEPS)

\* MelodyEngineAudioProcessor::queueCommand: returns at once on an index
\* outside the phrase
MelodyQueueCommand(cmd, origin) ==
  /\ plugin = Melody
  /\ uiPc = "idle"
  /\ enqueued < MaxEnqueues
  /\ IF MelodyIndexOk(cmd)
     THEN BeginWrite(cmd, origin)
     ELSE /\ enqueued' = enqueued + 1
          /\ dropped' = dropped \cup {WithId(cmd, enqueued)}
          /\ UNCHANGED <<plugin, rhythmVars, melodyVars, fifoVars, uiVars, audioVars,
                         seqVars, savedState, accepted, consumed, drainStart, lastPublished>>

\* MelodyCanvasComponent::mouseDown with the right button on step: delete
MelodyMouseDownDelete(step) ==
  /\ step >= 0 /\ step < NUM_PHRASE_STEPS
  /\ MelodyQueueCommand(MelodyCmd(step, [cachedPhrase.events[step] EXCEPT !.active = FALSE]),
                        "deleteCopy")

NUM_OCTAVES == 3
START_OCTAVE == 1

\* The note MelodyCanvasComponent::mouseDrag paints for grid row `row`
PaintedNote(ph, row) ==
  LET intervals == getScaleIntervals(ph.scaleName)
      notesPerOctave == Len(intervals)
      r == jlimit(0, (NUM_OCTAVES * notesPerOctave) - 1, row)
      invertedRow == (NUM_OCTAVES * notesPerOctave) - 1 - r
      octave == invertedRow \div notesPerOctave
      scaleIndex == invertedRow % notesPerOctave
  IN (START_OCTAVE + octave) * 12 + (ph.rootNote % 12) + intervals[scaleIndex + 1]

\* MelodyCanvasComponent::mouseDrag (also mouseDown with the left button)
MelodyMouseDrag(step, row) ==
  /\ step >= 0 /\ step < NUM_PHRASE_STEPS
  /\ MelodyQueueCommand(
       MelodyCmd(step, [cachedPhrase.events[step] EXCEPT
                          !.active = TRUE, !.pitch = PaintedNote(cachedPhrase, row),
                          !.velocity = 100, !.duration = 25]),
       "paintCopy")

QueueCopyPcs == {"qcCopy", "mouseDownCopy", "deleteCopy", "paintCopy"}

\* Mutant of StoreCommand: the store is made without looking at the sizes
\* of the ScopedWrite
StoreCommand_Unchecked(buf, w, cmd) == [buf EXCEPT ![w.startIndex1] = cmd]

\* if (writer.blockSize1 > 0) commandBuffer[writer.startIndex1] = cmd;
\* else if (writer.blockSize2 > 0) commandBuffer[writer.startIndex2] = cmd;
StoreCommand(buf, w, cmd) ==
  IF w.blockSize1 > 0 THEN [buf EXCEPT ![w.startIndex1] = cmd]
  ELSE IF w.blockSize2 > 0 THEN [buf EXCEPT ![w.startIndex2] = cmd]
  ELSE buf

\* The body of queueCommand after commandFifo.write(1): nothing is stored
\* when the ScopedWrite is empty
QueueCommand_Copy ==
  /\ uiPc \in QueueCopyPcs
  /\ commandBuffer' = StoreCommand(commandBuffer, writer, uiCmd)
  /\ uiPc' = CASE uiPc = "qcCopy" -> "qcFinish"
               [] uiPc = "mouseDownCopy" -> "mouseDownFinish"
               [] uiPc = "deleteCopy" -> "deleteFinish"
               [] uiPc = "paintCopy" -> "paintFinish"
  /\ UNCHANGED <<plugin, rhythmVars, melodyVars, validStart, validEnd, uiCmd, writer,
                 audioVars, seqVars, savedState, histVars>>

QueueFinishPcs == {"qcFinish", "mouseDownFinish", "deleteFinish", "paintFinish"}

\* The optimistic update of the caller's cache that follows queueCommand
OptimisticPattern(cp, pc, cmd) ==
  IF pc = "mouseDownFinish"
  THEN [cp EXCEPT !.tracks[cmd.trackIdx].steps[cmd.stepIdx] =
          [@ EXCEPT !.active = (cmd.value = 100),
                    !.velocity = IF cmd.value = 100 THEN 100 ELSE @]]
  ELSE cp

OptimisticPhrase(cp, pc, cmd) ==
  IF pc = "deleteFinish" THEN [cp EXCEPT !.events[cmd.stepIdx].active = FALSE]
  ELSE IF pc = "paintFinish"
  THEN [cp EXCEPT !.events[cmd.stepIdx] = cmd.eventData]
  ELSE cp

\* ~ScopedWrite: finishedWrite(blockSize1 + blockSize2); queueCommand
\* returns and its caller updates its cache
QueueCommand_Finish ==
  /\ uiPc \in QueueFinishPcs
  /\ LET n == writer.blockSize1 + writer.blockSize2
     IN /\ validEnd' = AdvanceCursor(validEnd, n)
        /\ IF n > 0
           THEN accepted' = Append(accepted, uiCmd) /\ UNCHANGED dropped
           ELSE dropped' = dropped \cup {uiCmd} /\ UNCHANGED accepted
  /\ IF plugin = Rhythm
     THEN cachedPattern' = OptimisticPattern(cachedPattern, uiPc, uiCmd) /\ UNCHANGED cachedPhrase
     ELSE cachedPhrase' = OptimisticPhrase(cachedPhrase, uiPc, uiCmd) /\ UNCHANGED cachedPattern
  /\ uiPc' = "idle"
  /\ uiCmd' = NoCommand
  /\ writer' = NoBlocks
  /\ UNCHANGED <<plugin, pattern, patternSnapshot, patternDirty, patternMutex,
                 phrase, phraseSnapshot, phraseDirty, phraseMutex,
                 commandBuffer, validStart, audioVars, seqVars, savedState,
                 enqueued, consumed, drainStart, lastPublished>>

(***************************************************************************)
(* Audio thread: the command drain at the head of processBlock             *)
(***************************************************************************)
\* Mutant of RhythmIndexOk: the track index is not checked
RhythmIndexOk_StepOnly(cmd) == cmd.stepIdx >= 0 /\ cmd.stepIdx < NUM_STEPS

\* The index check of the rhythm processCommands lambda
RhythmIndexOk(cmd) ==
  /\ cmd.trackIdx >= 0 /\ cmd.trackIdx < NUM_TRACKS
  /\ cmd.stepIdx >= 0 /\ cmd.stepIdx < NUM_STEPS

\* The command types the rhythm processCommands lambda has a branch for
RhythmKnownTypes == {"ToggleStep", "UpdateVelocity", "SetModifier"}

\* The assignment each branch makes to pattern.tracks[trackIdx].steps[stepIdx]
ApplyRhythmCommand(p, cmd) ==
  CASE cmd.type = "ToggleStep" ->
         [p EXCEPT !.tracks[cmd.trackIdx].steps[cmd.stepIdx].active = (cmd.value > 50)]
    [] cmd.type = "UpdateVelocity" ->
         [p EXCEPT !.tracks[cmd.trackIdx].steps[cmd.stepIdx].velocity = cmd.value]
    [] cmd.type = "SetModifier" ->
         [p EXCEPT !.tracks[cmd.trackIdx].steps[cmd.stepIdx].modifier = cmd.modifierValue]
    [] OTHER -> p

\* The rhythm lambda with patternDirty.store(true) after the branches
\* instead of inside them
RhythmProcessCommand_DirtyOutsideBranches(st, cmd) ==
  IF RhythmIndexOk(cmd)
  THEN [data |-> ApplyRhythmCommand(st.data, cmd), dirty |-> TRUE]
  ELSE st

\* One turn of the loop of the rhythm processCommands lambda; st is
\* [data: the pattern, dirty: patternDirty]
RhythmProcessCommand(st, cmd) ==
  IF RhythmIndexOk(cmd) /\ cmd.type \in RhythmKnownTypes
  THEN [data |-> ApplyRhythmCommand(st.data, cmd), dirty |-> TRUE]
  ELSE st

\* One turn of the loop of the melody processCommands lambda
MelodyProcessCommand(st, cmd) ==
  IF cmd.stepIdx >= 0 /\ cmd.stepIdx < NUM_PHRASE_STEPS /\ cmd.type = "SetEvent"
  THEN [data |-> [st.data EXCEPT !.events[cmd.stepIdx] = cmd.eventData], dirty |-> TRUE]
  ELSE st

\* processCommands over the claimed slots, block 1 then block 2
RECURSIVE ProcessCommands(_, _, _)
ProcessCommands(st, batch, i) ==
  IF i > Len(batch) THEN st
  ELSE ProcessCommands(IF plugin = Rhythm THEN RhythmProcessCommand(st, batch[i])
                       ELSE MelodyProcessCommand(st, batch[i]),
                       batch, i + 1)

\* The commands in the slots a ScopedRead covers
Batch(buf, rd) == LET sl == BlockSlots(rd) IN [i \in 1 .. Len(sl) |-> buf[sl[i]]]

\* processBlock entered: int numToDo = commandFifo.getNumReady()
BeginBlock ==
  /\ aPc = "idle"
  /\ numToDo' = GetNumReady(validStart, validEnd)
  /\ aPc' = IF numToDo' > 0 THEN "read" ELSE "seq"
  /\ drainStart' = Len(accepted)
  /\ UNCHANGED <<plugin, rhythmVars, melodyVars, fifoVars, uiVars, reader, seqVars,
                 savedState, enqueued, accepted, consumed, dropped, lastPublished>>

\* auto reader = commandFifo.read(numToDo)
Drain_Read ==
  /\ aPc = "read"
  /\ reader' = PrepareToRead(numToDo, validStart, validEnd)
  /\ aPc' = "apply"
  /\ UNCHANGED <<plugin, rhythmVars, melodyVars, fifoVars, uiVars, numToDo, seqVars,
                 savedState, histVars>>

\* processCommands(startIndex1, blockSize1); processCommands(startIndex2, blockSize2)
Drain_Apply ==
  /\ aPc = "apply"
  /\ LET batch == Batch(commandBuffer, reader)
     IN /\ IF plugin = Rhythm
           THEN LET r == ProcessCommands([data |-> pattern, dirty |-> patternDirty], batch, 1)
                IN /\ pattern' = r.data
                   /\ patternDirty' = r.dirty
                   /\ UNCHANGED <<phrase, phraseDirty>>
           ELSE LET r == ProcessCommands([data |-> phrase, dirty |-> phraseDirty], batch, 1)
                IN /\ phrase' = r.data
                   /\ phraseDirty' = r.dirty
                   /\ UNCHANGED <<pattern, patternDirty>>
        /\ consumed' = consumed \o batch
  /\ aPc' = "finishRead"
  /\ UNCHANGED <<plugin, patternSnapshot, patternMutex, cachedPattern,
                 phraseSnapshot, phraseMutex, cachedPhrase, fifoVars, uiVars,
                 numToDo, reader, seqVars, savedState,
                 enqueued, accepted, dropped, drainStart, lastPublished>>

\* Mutant of Drain_Finish: the read cursor is not advanced, so the slots
\* just read stay ready
Drain_Finish_KeepsCursor ==
  /\ aPc = "finishRead"
  /\ reader' = NoBlocks
  /\ aPc' = "seq"
  /\ UNCHANGED <<plugin, rhythmVars, melodyVars, fifoVars, uiVars,
                 numToDo, seqVars, savedState, histVars>>

\* ~ScopedRead at the end of the drain: finishedRead(blockSize1 + blockSize2)
Drain_Finish ==
  /\ aPc = "finishRead"
  /\ validStart' = AdvanceCursor(validStart, reader.blockSize1 + reader.blockSize2)
  /\ reader' = NoBlocks
  /\ aPc' = "seq"
  /\ UNCHANGED <<plugin, rhythmVars, melodyVars, commandBuffer, validEnd, uiVars,
                 numToDo, seqVars, savedState, histVars>>

(***************************************************************************)
(* Audio thread: updateSnapshotFromAudio at the tail of processBlock       *)
(***************************************************************************)
\* Mutant of UpdateSnapshot_TryLock: a failed try_lock() clears the flag, so
\* the publish is not retried
UpdateSnapshot_TryLock_ClearsFlag ==
  /\ aPc = "publish"
  /\ IF plugin = Rhythm
     THEN /\ IF patternDirty /\ CanLock(patternMutex)
             THEN /\ patternMutex' = "audio"
                  /\ lastPublished' = pattern
                  /\ aPc' = "pubCopy1"
                  /\ UNCHANGED patternDirty
             ELSE /\ aPc' = "idle"
                  /\ patternDirty' = FALSE
                  /\ UNCHANGED <<patternMutex, lastPublished>>
          /\ UNCHANGED <<phraseMutex, phraseDirty>>
     ELSE /\ IF phraseDirty /\ CanLock(phraseMutex)
             THEN /\ phraseMutex' = "audio"
                  /\ lastPublished' = phrase
                  /\ aPc' = "pubCopy1"
                  /\ UNCHANGED phraseDirty
             ELSE /\ aPc' = "idle"
                  /\ phraseDirty' = FALSE
                  /\ UNCHANGED <<phraseMutex, lastPublished>>
          /\ UNCHANGED <<patternMutex, patternDirty>>
  /\ UNCHANGED <<plugin, pattern, patternSnapshot, cachedPattern,
                 phrase, phraseSnapshot, cachedPhrase, fifoVars, uiVars,
                 numToDo, reader, seqVars, savedState,
                 enqueued, accepted, consumed, dropped, drainStart>>

\* Mutant of UpdateSnapshot_TryLock: lock() in place of try_lock(), so a
\* dirty block waits for the mutex
UpdateSnapshot_TryLock_Waits ==
  /\ aPc = "publish"
  /\ IF plugin = Rhythm
     THEN /\ IF patternDirty
             THEN /\ CanLock(patternMutex)
                  /\ patternMutex' = "audio"
                  /\ lastPublished' = pattern
                  /\ aPc' = "pubCopy1"
             ELSE /\ aPc' = "idle"
                  /\ UNCHANGED <<patternMutex, lastPublished>>
          /\ UNCHANGED phraseMutex
     ELSE /\ IF phraseDirty
             THEN /\ CanLock(phraseMutex)
                  /\ phraseMutex' = "audio"
                  /\ lastPublished' = phrase
                  /\ aPc' = "pubCopy1"
             ELSE /\ aPc' = "idle"
                  /\ UNCHANGED <<phraseMutex, lastPublished>>
          /\ UNCHANGED patternMutex
  /\ UNCHANGED <<plugin, pattern, patternSnapshot, patternDirty, cachedPattern,
                 phrase, phraseSnapshot, phraseDirty, cachedPhrase, fifoVars, uiVars,
                 numToDo, reader, seqVars, savedState,
                 enqueued, accepted, consumed, dropped, drainStart>>

\* if (patternDirty) if (patternMutex.try_lock()) ...: the block ends here
\* when nothing is dirty or the mutex is held
UpdateSnapshot_TryLock ==
  /\ aPc = "publish"
  /\ IF plugin = Rhythm
     THEN /\ IF patternDirty /\ CanLock(patternMutex)
             THEN /\ patternMutex' = "audio"
                  /\ lastPublished' = pattern
                  /\ aPc' = "pubCopy1"
             ELSE /\ aPc' = "idle"
                  /\ UNCHANGED <<patternMutex, lastPublished>>
          /\ UNCHANGED phraseMutex
     ELSE /\ IF phraseDirty /\ CanLock(phraseMutex)
             THEN /\ phraseMutex' = "audio"
                  /\ lastPublished' = phrase
                  /\ aPc' = "pubCopy1"
             ELSE /\ aPc' = "idle"
                  /\ UNCHANGED <<phraseMutex, lastPublished>>
          /\ UNCHANGED patternMutex
  /\ UNCHANGED <<plugin, pattern, patternSnapshot, patternDirty, cachedPattern,
                 phrase, phraseSnapshot, phraseDirty, cachedPhrase, fifoVars, uiVars,
                 numToDo, reader, seqVars, savedState,
                 enqueued, accepted, consumed, dropped, drainStart>>

\* patternSnapshot = pattern, first part
UpdateSnapshot_Copy1 ==
  /\ aPc = "pubCopy1"
  /\ IF plugin = Rhythm
     THEN /\ patternSnapshot' = CopyTracks(patternSnapshot, pattern, FirstTracks)
          /\ UNCHANGED phraseSnapshot
     ELSE /\ phraseSnapshot' = CopyEvents(phraseSnapshot, phrase, FirstEvents)
          /\ UNCHANGED patternSnapshot
  /\ aPc' = "pubCopy2"
  /\ UNCHANGED <<plugin, pattern, patternDirty, patternMutex, cachedPattern,
                 phrase, phraseDirty, phraseMutex, cachedPhrase, fifoVars, uiVars,
                 numToDo, reader, seqVars, savedState, histVars>>

\* patternSnapshot = pattern, second part
UpdateSnapshot_Copy2 ==
  /\ aPc = "pubCopy2"
  /\ IF plugin = Rhythm
     THEN /\ patternSnapshot' = CopyTracks(patternSnapshot, pattern, Tracks \ FirstTracks)
          /\ UNCHANGED phraseSnapshot
     ELSE /\ phraseSnapshot' = CopyPhraseRest(phraseSnapshot, phrase)
          /\ UNCHANGED patternSnapshot
  /\ aPc' = "pubUnlock"
  /\ UNCHANGED <<plugin, pattern, patternDirty, patternMutex, cachedPattern,
                 phrase, phraseDirty, phraseMutex, cachedPhrase, fifoVars, uiVars,
                 numToDo, reader, seqVars, savedState, histVars>>

\* patternMutex.unlock(); patternDirty = false; (the flag is touched by the
\* audio thread only) and processBlock returns
UpdateSnapshot_Unlock ==
  /\ aPc = "pubUnlock"
  /\ IF plugin = Rhythm
     THEN /\ patternMutex' = "free"
          /\ patternDirty' = FALSE
          /\ UNCHANGED <<phraseMutex, phraseDirty>>
     ELSE /\ phraseMutex' = "free"
          /\ phraseDirty' = FALSE
          /\ UNCHANGED <<patternMutex, patternDirty>>
  /\ aPc' = "idle"
  /\ UNCHANGED <<plugin, pattern, patternSnapshot, cachedPattern,
                 phrase, phraseSnapshot, cachedPhrase, fifoVars, uiVars,
                 numToDo, reader, seqVars, savedState, histVars>>

(***************************************************************************)
(* Audio thread: transport and step sequencer of the RhythmEngine          *)
(*                                                                         *)
(* samplesPerStep = (60 / bpm) * sampleRate / 4 is the rational            *)
(* 15 * sampleRate / bpm; the model keeps it exact by comparing            *)
(* t * bpm against multiples of 15 * sampleRate.                           *)
(***************************************************************************)
\* C++ integer division and remainder, which truncate toward zero
CDiv(a, b) == IF a >= 0 THEN a \div b ELSE -((-a) \div b)
CMod(a, b) == a - b * CDiv(a, b)

\* std::floor(t / samplesPerStep)
StepIdxAt(t, bpm, sampleRate) == (t * bpm) \div (15 * sampleRate)

\* shouldTriggerLogicGate
shouldTriggerLogicGate(mod, loopCount) ==
  CASE mod = "SkipCycle" -> (loopCount % 2) = 0
    [] mod = "OnlyFirstCycle" -> loopCount = 0
    [] OTHER -> TRUE

\* Mutant of triggerWithMods: the modifier's gate is not looked at
triggerWithMods_Ungated(step, loopCount, draw) ==
  step.active /\ ~(draw > step.probability)

\* triggerWithMods for one track at a detected boundary: whether
\* env.trigger() is reached; draw is the value of random.nextFloat()
triggerWithMods(step, loopCount, draw) ==
  /\ step.active
  /\ shouldTriggerLogicGate(step.modifier, loopCount)
  /\ ~(draw > step.probability)

\* int expectedSubStep = static_cast<int>(positionInStep / subStepLength),
\* with positionInStep = std::fmod(currentSampleTime, samplesPerStep)
ExpectedSubStep(t, bpm, sampleRate, divisions) ==
  CDiv(divisions * CMod(t * bpm, 15 * sampleRate), 15 * sampleRate)

RatchetDivisions(mod) ==
  CASE mod = "Ratchet2" -> 2 [] mod = "Ratchet4" -> 4 [] OTHER -> 0

\* checkRatchet for one track: the sub-step to record and fire, or -1
checkRatchet(step, counter, t, bpm, sampleRate) ==
  LET divisions == RatchetDivisions(step.modifier)
      expectedSubStep == ExpectedSubStep(t, bpm, sampleRate, divisions)
  IN IF step.active /\ divisions > 0 /\ expectedSubStep > counter /\ expectedSubStep < divisions
     THEN expectedSubStep
     ELSE -1

\* The entries the four triggerWithMods / checkRatchet calls made at sample
\* time t add to the trigger history: one for each track of hit, in the
\* order of the calls; sub[k] is 0 for the trigger of the step and n for
\* ratchet sub-step n
FiredAt(hit, sub, t) ==
  LET entry(i) == LET k == <<Kick, Bass, Clap, Hat>>[i]
                  IN IF k \in hit THEN <<[track |-> k, time |-> t, sub |-> sub[k]]>> ELSE <<>>
  IN entry(1) \o entry(2) \o entry(3) \o entry(4)

\* The body of `if (currentStepIdx > lastStepIdx)`: loop detection, the
\* step published to the UI, the reset of the ratchet counters and the four
\* triggerWithMods calls. st holds the members the sample loop updates:
\* last (lastProcessedSampleTime), loop (currentLoopCount), lastStep
\* (lastStepForLoopDetection), stepAtomic (currentStepAtomic), rc
\* (ratchetCounters), and the histories trig (triggers), det (boundaries),
\* fired and idx (the step indices used to read the pattern); stray is the
\* Step a read outside the steps array returns.
StepBoundary(st, stepToTrigger, pat, draws, t) ==
  LET loop1 == IF stepToTrigger = 0 /\ st.lastStep = NUM_STEPS - 1
               THEN st.loop + 1 ELSE st.loop
      hit == {k \in Tracks :
                triggerWithMods(pat.tracks[k].steps[stepToTrigger], loop1, draws[k])}
  IN [last |-> st.last,
      loop |-> loop1,
      lastStep |-> stepToTrigger,
      stepAtomic |-> stepToTrigger,
      rc |-> [k \in Tracks |-> 0],
      trig |-> [k \in Tracks |-> IF k \in hit THEN st.trig[k] + 1 ELSE st.trig[k]],
      det |-> Append(st.det, [time |-> t, step |-> stepToTrigger, loop |-> loop1]),
      fired |-> st.fired \o FiredAt(hit, [k \in Tracks |-> 0], t),
      idx |-> st.idx \cup {stepToTrigger},
      stray |-> st.stray]

\* The ratchet section of the sample loop: the four checkRatchet calls
RatchetSection(st0, t, bpm, sampleRate, pat) ==
  LET currentStep == CMod(StepIdxAt(t, bpm, sampleRate), NUM_STEPS)
      st == IF currentStep \in st0.idx THEN st0
            ELSE [st0 EXCEPT !.idx = @ \cup {currentStep}]
      step(k) == IF currentStep \in Steps THEN pat.tracks[k].steps[currentStep]
                 ELSE st.stray
      sub == [k \in Tracks |-> checkRatchet(step(k), st.rc[k], t, bpm, sampleRate)]
  IN IF \A k \in Tracks : sub[k] < 0 THEN st
     ELSE [st EXCEPT !.rc = [k \in Tracks |-> IF sub[k] >= 0 THEN sub[k] ELSE st.rc[k]],
                     !.trig = [k \in Tracks |->
                                 IF sub[k] >= 0 THEN st.trig[k] + 1 ELSE st.trig[k]],
                     !.fired = st.fired \o FiredAt({k \in Tracks : sub[k] >= 0}, sub, t)]

\* Mutant of SequencerSample: lastProcessedSampleTime is not advanced once
\* it is set
SequencerSample_KeepsLast(st, t, bpm, sampleRate, pat, draws) ==
  IF st.last >= 0
  THEN IF StepIdxAt(t, bpm, sampleRate) > StepIdxAt(st.last, bpm, sampleRate)
       THEN StepBoundary(st, CMod(StepIdxAt(t, bpm, sampleRate), NUM_STEPS), pat, draws, t)
       ELSE st
  ELSE [st EXCEPT !.last = t]

\* One turn of the sample loop of processBlock, at sample time t
SequencerSample(st, t, bpm, sampleRate, pat, draws) ==
  IF st.last >= 0
  THEN
    LET lastStepIdx == StepIdxAt(st.last, bpm, sampleRate)
        currentStepIdx == StepIdxAt(t, bpm, sampleRate)
        afterBoundary ==
          IF currentStepIdx > lastStepIdx
          THEN StepBoundary(st, CMod(currentStepIdx, NUM_STEPS), pat, draws, t)
          ELSE st
    IN [RatchetSection(afterBoundary, t, bpm, sampleRate, pat) EXCEPT !.last = t]
  ELSE [st EXCEPT !.last = t]

\* TLC evaluates definitions and function constructors on demand; comparing
\* a value with itself makes it evaluate the value in full. Of the members
\* the sample loop updates, the two arrays are function constructors; the
\* histories are built as they grow.
Evaluated(st) ==
  st.last = st.last /\ st.rc = st.rc /\ st.trig = st.trig /\ st.idx = st.idx

\* for (int s = 0; s < numSamples; ++s): the turns s .. numSamples - 1 of
\* the sample loop, in order. The range is evaluated by halves, the first
\* half in full before the second, which keeps the evaluation shallow.
RECURSIVE SequencerLoop(_, _, _, _, _, _, _, _)
SequencerLoop(st, s, numSamples, blockStart, bpm, sampleRate, pat, draws) ==
  IF s >= numSamples THEN st
  ELSE IF numSamples - s = 1
  THEN SequencerSample(st, blockStart + s, bpm, sampleRate, pat, draws)
  ELSE LET mid == s + ((numSamples - s) \div 2)
           firstHalf == SequencerLoop(st, s, mid, blockStart, bpm, sampleRate, pat, draws)
       IN IF Evaluated(firstHalf)
          THEN SequencerLoop(firstHalf, mid, numSamples, blockStart, bpm, sampleRate, pat, draws)
          ELSE firstHalf

\* Mutant of HostPlaying: the transport is asked without a position
HostPlaying_IgnoresPosition(h) == h.playHead /\ h.isPlaying

\* What the host's play head reports for a block. playHead and position say
\* whether getPlayHead() and getPosition() return something.
HostPlaying(h) == h.playHead /\ h.position /\ h.isPlaying

\* A host whose play head returns no position while its transport runs
NoPosition == [playHead |-> TRUE, position |-> FALSE, isPlaying |-> TRUE, bpm |-> 240, time |-> 0]

NoPlayHead == [playHead |-> FALSE, position |-> FALSE, isPlaying |-> FALSE, bpm |-> 120, time |-> 0]
Stopped == [playHead |-> TRUE, position |-> TRUE, isPlaying |-> FALSE, bpm |-> 120, time |-> 0]
StoppedHosts == {NoPlayHead, Stopped}

\* What pattern.tracks[t].steps[i] may hold for an i outside the array: the
\* memory next to the steps, read as a Step
StraySteps ==
  {DefaultStep, [DefaultStep EXCEPT !.active = TRUE, !.modifier = "Ratchet2"],
   [DefaultStep EXCEPT !.active = TRUE, !.modifier = "Ratchet4"]}

\* The audio loop of section 5 of RhythmEngineAudioProcessor::processBlock:
\* for s = 0 .. numSamples - 1 one getNextSample() of each voice envelope
\* and one output sample
AudioLoop(numSamples) ==
  [op |-> "audioLoop", startSample |-> 0, numSamples |-> numSamples]

\* The env.trigger() calls of the sample loop of section 3, in the order
\* they are made: one for each entry the block added to the trigger
\* history, with the sample offset at which the loop made it
TriggerCalls(new, blockStart) ==
  [i \in DOMAIN new |->
     [op |-> "trigger", track |-> new[i].track, offset |-> new[i].time - blockStart]]

\* Sections 1 and 3 of RhythmEngineAudioProcessor::processBlock for a block
\* of numSamples samples at the given sample rate, and the audio loop of
\* section 5, which runs over the whole block whatever the transport does
RhythmSequencer(h, numSamples, sampleRate, draws) ==
  LET bpm == IF h.playHead /\ h.position THEN h.bpm ELSE currentBpm
      blockStartSampleTime == IF h.playHead /\ h.position THEN h.time ELSE 0
      loop(stray) == SequencerLoop([last |-> lastProcessedSampleTime,
                                    loop |-> currentLoopCount,
                                    lastStep |-> lastStepForLoopDetection,
                                    stepAtomic |-> currentStepAtomic,
                                    rc |-> ratchetCounters,
                                    trig |-> triggers,
                                    det |-> boundaries,
                                    fired |-> fired,
                                    idx |-> {},
                                    stray |-> stray],
                                   0, numSamples, blockStartSampleTime, bpm,
                                   sampleRate, pattern, draws)
  IN /\ currentBpm' = bpm
     /\ IF HostPlaying(h)
        THEN \E first \in {loop(DefaultStep)} :
             \E st \in (IF first.idx \subseteq Steps THEN {first}
                        ELSE {loop(stray) : stray \in StraySteps}) :
                /\ lastProcessedSampleTime' = st.last
                /\ currentLoopCount' = st.loop
                /\ lastStepForLoopDetection' = st.lastStep
                /\ currentStepAtomic' = st.stepAtomic
                /\ ratchetCounters' = st.rc
                /\ triggers' = st.trig
                /\ boundaries' = st.det
                /\ fired' = st.fired
                /\ lastBlock' = [detected |-> Len(st.det) - Len(boundaries),
                                  draws |-> IF Len(st.det) > Len(boundaries)
                                            THEN draws ELSE QuietBlock.draws,
                                  renderedAll |-> TRUE,
                                  calls |-> TriggerCalls(SubSeq(st.fired, Len(fired) + 1,
                                                                Len(st.fired)),
                                                         blockStartSampleTime)
                                            \o <<AudioLoop(numSamples)>>,
                                  allocated |-> <<>>,
                                  stepIndices |-> st.idx]
                /\ playStart' = IF playStart = <<>> THEN <<h.time>> ELSE playStart
                /\ hostTime' = h.time + numSamples
                /\ UNCHANGED <<stops, envelope, kickPhasor, stutterFX>>
        ELSE /\ lastProcessedSampleTime' = -1
             /\ currentStepAtomic' = -1
             /\ currentLoopCount' = 0
             /\ lastStepForLoopDetection' = -1
             /\ boundaries' = <<>>
             /\ fired' = <<>>
             /\ playStart' = <<>>
             /\ stops' = IF playStart # <<>> THEN stops + 1 ELSE stops
             /\ lastBlock' = QuietBlock
             /\ UNCHANGED <<ratchetCounters, triggers, hostTime, envelope, kickPhasor,
                            stutterFX>>

\* WavetableSynth::processBlock with a loop that writes channel[i] instead of
\* channel[startSample + i]
SynthProcessBlock_IgnoresStart(startSample, numSamples) ==
  [op |-> "processBlock", startSample |-> 0, numSamples |-> numSamples]

\* A call of WavetableSynth::processBlock(buffer, startSample, numSamples),
\* which renders the samples startSample + i for i = 0 .. numSamples - 1, in
\* this order
SynthProcessBlock(startSample, numSamples) ==
  [op |-> "processBlock", startSample |-> startSample, numSamples |-> numSamples]

\* The sequencer section of MelodyEngineAudioProcessor::processBlock when
\* the transport is not playing: the whole block goes to the synth
MelodySequencerStopped(numSamples) ==
  /\ currentStepAtomic' = -1
  /\ lastBlock' = [QuietBlock EXCEPT !.calls = <<SynthProcessBlock(0, numSamples)>>]
  /\ fired' = <<>>
  /\ playStart' = <<>>
  /\ stops' = IF playStart # <<>> THEN stops + 1 ELSE stops
  /\ UNCHANGED <<hostTime, lastProcessedSampleTime, currentBpm, currentLoopCount,
                 lastStepForLoopDetection, ratchetCounters, triggers, boundaries,
                 envelope, kickPhasor, stutterFX>>

\* int samplesToNextStep = (int)(ppqToNextStep * samplesPerBeat), for the
\* ppq position of sample time t: the host's ppq is t * bpm / (60 *
\* sampleRate), so ppq * 4 is t * bpm / (15 * sampleRate); ceilSteps is
\* std::ceil(ppq * 4)
SamplesToNextStep(t, bpm, sampleRate) ==
  LET ceilSteps == -((-(t * bpm)) \div (15 * sampleRate))
  IN CDiv(ceilSteps * 15 * sampleRate - t * bpm, bpm)

\* The sequencer section of MelodyEngineAudioProcessor::processBlock when
\* the host is playing at sample time h.time; draw is random.nextFloat(),
\* stray is what phrase.events[nextStepIndex] reads for an index outside
\* the array
MelodySequencerPlaying(h, numSamples, sampleRate, draw, stray) ==
  LET stepIndex == CMod(StepIdxAt(h.time, h.bpm, sampleRate), NUM_PHRASE_STEPS)
      samplesToNextStep == SamplesToNextStep(h.time, h.bpm, sampleRate)
      nextStepIndex == CMod(stepIndex + 1, NUM_PHRASE_STEPS)
      event == IF nextStepIndex \in PhraseSteps THEN phrase.events[nextStepIndex] ELSE stray
      remainingSamples == numSamples - samplesToNextStep
      split == (IF samplesToNextStep > 0 THEN samplesToNextStep ELSE 0)
               + (IF remainingSamples > 0 THEN remainingSamples ELSE 0)
      processed == IF samplesToNextStep < numSamples THEN split ELSE numSamples
      triggered == /\ samplesToNextStep < numSamples
                   /\ event.active
                   /\ draw <= event.probability
      calls == IF samplesToNextStep < numSamples
               THEN (IF samplesToNextStep > 0
                     THEN <<SynthProcessBlock(0, samplesToNextStep)>> ELSE <<>>)
                    \o (IF triggered THEN <<[op |-> "triggerBaseNote"]>> ELSE <<>>)
                    \o (IF remainingSamples > 0
                        THEN <<SynthProcessBlock(samplesToNextStep, remainingSamples)>>
                        ELSE <<>>)
               ELSE <<SynthProcessBlock(0, numSamples)>>
  IN /\ currentStepAtomic' = stepIndex
     /\ fired' = IF triggered
                 THEN Append(fired, [track |-> "Synth", time |-> h.time + samplesToNextStep,
                                     sub |-> nextStepIndex,
                                     note |-> quantize(event.pitch, phrase.rootNote,
                                                       phrase.scaleName)])
                 ELSE fired
     /\ lastBlock' = [detected |-> IF samplesToNextStep < numSamples THEN 1 ELSE 0,
                      draws |-> [k \in Tracks |-> draw],
                      renderedAll |-> processed = numSamples,
                      calls |-> calls,
                      allocated |-> IF triggered
                                    THEN <<[object |-> "std::vector<int>",
                                            elements |-> getScaleIntervals(phrase.scaleName)]>>
                                    ELSE <<>>,
                      stepIndices |-> IF samplesToNextStep < numSamples
                                      THEN {nextStepIndex} ELSE {}]
     /\ playStart' = IF playStart = <<>> THEN <<h.time>> ELSE playStart
     /\ hostTime' = h.time + numSamples
     /\ UNCHANGED <<lastProcessedSampleTime, currentBpm, currentLoopCount,
                    lastStepForLoopDetection, ratchetCounters, triggers, boundaries, stops,
                    envelope, kickPhasor, stutterFX>>

\* The part of processBlock between the drain and updateSnapshotFromAudio,
\* for a host report h, a block length and the random draws of the block
Render_Sequencer(h, numSamples, sampleRate, draws) ==
  /\ aPc = "seq"
  /\ IF plugin = Rhythm
     THEN RhythmSequencer(h, numSamples, sampleRate, draws)
     ELSE ~HostPlaying(h) /\ MelodySequencerStopped(numSamples)
  /\ aPc' = "publish"
  /\ UNCHANGED <<plugin, rhythmVars, melodyVars, fifoVars, uiVars, numToDo, reader,
                 savedState, histVars>>

\* The same part of MelodyEngineAudioProcessor::processBlock for a playing
\* host; an out-of-range read of phrase.events yields an event that is
\* active or not
Render_MelodyPlaying(h, numSamples, sampleRate, draw) ==
  /\ aPc = "seq"
  /\ plugin = Melody
  /\ HostPlaying(h)
  /\ \E stray \in {DefaultNoteEvent, [DefaultNoteEvent EXCEPT !.active = TRUE]} :
       MelodySequencerPlaying(h, numSamples, sampleRate, draw, stray)
  /\ aPc' = "publish"
  /\ UNCHANGED <<plugin, rhythmVars, melodyVars, fifoVars, uiVars, numToDo, reader,
                 savedState, histVars>>

(***************************************************************************)
(* The state exchange with the transport stopped                           *)
(***************************************************************************)
\* The grid row the modelled canvas drags land on
ClickRows == {0}

\* A block rendered while the host is not playing: its length, sample rate
\* and random draws do not reach the sequencer
IdleBlock == [numSamples |-> 512, sampleRate |-> 48000, draws |-> [t \in Tracks |-> 0]]

UiNext ==
  \/ GetGuiSnapshot_Lock
  \/ GetGuiSnapshot_Copy1
  \/ GetGuiSnapshot_Copy2
  \/ GetGuiSnapshot_Unlock
  \/ \E c \in ClickCells : MouseDown(c[1], c[2])
  \/ \E cmd \in RawRhythmCommands : QueueCommand(cmd)
  \/ \E step \in DeleteSteps : MelodyMouseDownDelete(step)
  \/ \E step \in ClickSteps, row \in ClickRows : MelodyMouseDrag(step, row)
  \/ \E cmd \in RawMelodyCommands : MelodyQueueCommand(cmd, "qcCopy")
  \/ QueueCommand_Copy
  \/ QueueCommand_Finish

AudioNext ==
  \/ BeginBlock
  \/ Drain_Read
  \/ Drain_Apply
  \/ Drain_Finish
  \/ \E h \in StoppedHosts :
       Render_Sequencer(h, IdleBlock.numSamples, IdleBlock.sampleRate, IdleBlock.draws)
  \/ UpdateSnapshot_TryLock
  \/ UpdateSnapshot_Copy1
  \/ UpdateSnapshot_Copy2
  \/ UpdateSnapshot_Unlock

Init ==
  /\ plugin \in {Rhythm, Melody}
  /\ InitExchange
  /\ InitSequencer

Next == UiNext \/ AudioNext

Spec == Init /\ [][Next]_vars

(***************************************************************************)
(* Properties of the state exchange                                        *)
(***************************************************************************)
\* The commands the drain in progress covers
DrainBatch == Batch(commandBuffer, reader)

\* A drain step of the rhythm engine whose batch is one in-range ToggleStep
SingleToggleDrain ==
  /\ plugin = Rhythm
  /\ aPc = "apply" /\ aPc' = "finishRead"
  /\ Len(DrainBatch) = 1
  /\ DrainBatch[1].type = "ToggleStep"
  /\ RhythmIndexOk(DrainBatch[1])

\* C1: in the rhythm engine, a ToggleStep the UI issued for a valid step,
\* followed by one render block, leaves that step's active flag in the
\* authoritative pattern the negation of what it was before the block, and
\* changes no other step's active flag.
C1_ToggleStepFlips ==
  [][SingleToggleDrain =>
       \A t \in Tracks, s \in Steps :
         pattern'.tracks[t].steps[s].active =
           IF t = DrainBatch[1].trackIdx /\ s = DrainBatch[1].stepIdx
           THEN ~pattern.tracks[t].steps[s].active
           ELSE pattern.tracks[t].steps[s].active]_vars

(***************************************************************************)
(* Snapshot publication                                                    *)
(***************************************************************************)
\* The members of the loaded plug-in the publisher works on
Authoritative == IF plugin = Rhythm THEN pattern ELSE phrase
Snapshot == IF plugin = Rhythm THEN patternSnapshot ELSE phraseSnapshot
Dirty == IF plugin = Rhythm THEN patternDirty ELSE phraseDirty
SnapshotMutex == IF plugin = Rhythm THEN patternMutex ELSE phraseMutex

\* The UI thread finishes the call it is in: a lock_guard is released at
\* the end of getGuiSnapshot, a queueCommand in progress returns
UiProgress ==
  \/ GetGuiSnapshot_Copy1
  \/ GetGuiSnapshot_Copy2
  \/ GetGuiSnapshot_Unlock
  \/ QueueCommand_Copy
  \/ QueueCommand_Finish

\* The UI of the liveness specification: reads of the snapshot at any time,
\* and edits of one cell of the grid or of the canvas
LiveUiNext ==
  \/ GetGuiSnapshot_Lock
  \/ UiProgress
  \/ MouseDown(Kick, 0)
  \/ MelodyMouseDrag(0, 0)

LiveNext == LiveUiNext \/ AudioNext

\* The exchange with a host that keeps calling processBlock and a UI thread
\* that keeps running
SpecLive == Init /\ [][LiveNext]_vars /\ WF_vars(AudioNext) /\ WF_vars(UiProgress)

\* updateSnapshotFromAudio reaching try_lock() while the mutex is free
FreeAttempt == UpdateSnapshot_TryLock /\ CanLock(SnapshotMutex)

\* updateSnapshotFromAudio reaching try_lock() with the flag set while a UI
\* reader holds the mutex
FailedAttempt == UpdateSnapshot_TryLock /\ Dirty /\ ~CanLock(SnapshotMutex)

C3_RenderNeverWaits ==
  /\ [](ENABLED AudioNext)
  /\ [][(aPc = "publish" /\ SnapshotMutex = "ui" /\ aPc' # aPc)
          => (aPc' = "idle" /\ SnapshotMutex' = "ui" /\ Snapshot' = Snapshot)]_vars
  /\ [][(SnapshotMutex # "audio" /\ SnapshotMutex' = "audio") => aPc = "publish"]_vars

\* C3 witness: a block with the flag set has ended at the publish step while
\* the UI reader still holds the mutex, midway through its copy
C3_BlockEndedWhileUiHolds ==
  /\ aPc = "idle"
  /\ Dirty
  /\ SnapshotMutex = "ui"
  /\ uiPc = "gsCopy2"

\* The copy getGuiSnapshot fills: the cache of the component that called it
Cached == IF plugin = Rhythm THEN cachedPattern ELSE cachedPhrase

\* The snapshot as the constructor leaves it
InitialSnapshot ==
  IF plugin = Rhythm THEN DefaultConstructedPattern ELSE DefaultConstructedPhrase

ModifierOrder == <<"None", "Ratchet2", "Ratchet4", "Glide", "SkipCycle", "OnlyFirstCycle">>

\* static_cast<int>(step.modifier)
ModifierToInt(m) == (CHOOSE i \in 1 .. Len(ModifierOrder) : ModifierOrder[i] = m) - 1

\* static_cast<StepModifier>(int): values past the last enumerator name no
\* enumerator and are kept as the number
IntToModifier(i) == IF i >= 0 /\ i < Len(ModifierOrder) THEN ModifierOrder[i + 1] ELSE i

Max(S) == CHOOSE x \in S : \A y \in S : y <= x

\* RhythmEngineAudioProcessor::patternToValueTree
patternToValueTree(p) ==
  [type |-> "Pattern",
   children |-> [t \in 1 .. NUM_TRACKS |->
     [type |-> "Track", name |-> p.tracks[t - 1].name, midiNote |-> p.tracks[t - 1].midiNote,
      children |-> [k \in 1 .. NUM_STEPS |->
        [type |-> "Step", index |-> k - 1,
         active |-> p.tracks[t - 1].steps[k - 1].active,
         velocity |-> p.tracks[t - 1].steps[k - 1].velocity,
         probability |-> p.tracks[t - 1].steps[k - 1].probability,
         modifier |-> ModifierToInt(p.tracks[t - 1].steps[k - 1].modifier)]]]]]

\* Mutant of RestoreStep: the "modifier" property is not read
RestoreStep_KeepsModifier(old, stepTrees, k) ==
  LET hits == {i \in 1 .. Len(stepTrees) : stepTrees[i].type = "Step" /\ stepTrees[i].index = k}
  IN IF hits = {} THEN old
     ELSE LET c == stepTrees[Max(hits)]
          IN [active |-> c.active, velocity |-> c.velocity, probability |-> c.probability,
              modifier |-> old.modifier]

\* The step loop of patternFromValueTree for step index k: the last "Step"
\* child that carries index k is the one whose values stay
RestoreStep(old, stepTrees, k) ==
  LET hits == {i \in 1 .. Len(stepTrees) : stepTrees[i].type = "Step" /\ stepTrees[i].index = k}
  IN IF hits = {} THEN old
     ELSE LET c == stepTrees[Max(hits)]
          IN [active |-> c.active, velocity |-> c.velocity, probability |-> c.probability,
              modifier |-> IntToModifier(c.modifier)]

\* One turn of the track loop of patternFromValueTree
RestoreTrack(old, trackTree) ==
  IF trackTree.type # "Track" THEN old
  ELSE [name |-> trackTree.name, midiNote |-> trackTree.midiNote,
        steps |-> [k \in Steps |-> RestoreStep(old.steps[k], trackTree.children, k)]]

\* RhythmEngineAudioProcessor::patternFromValueTree over the tracks ts
patternFromValueTree(p, tree, ts) ==
  IF tree.type # "Pattern" THEN p
  ELSE [tracks |-> [t \in Tracks |->
          IF t \in ts /\ t < Len(tree.children)
          THEN RestoreTrack(p.tracks[t], tree.children[t + 1])
          ELSE p.tracks[t]]]

\* The "Event" children MelodyEngineAudioProcessor::getStateInformation
\* appends: the active events, in step order
RECURSIVE EventTrees(_, _)
EventTrees(ph, i) ==
  IF i >= NUM_PHRASE_STEPS THEN <<>>
  ELSE (IF ph.events[i].active
        THEN <<[type |-> "Event", index |-> i, pitch |-> ph.events[i].pitch,
                velocity |-> ph.events[i].velocity, duration |-> ph.events[i].duration,
                probability |-> ph.events[i].probability]>>
        ELSE <<>>) \o EventTrees(ph, i + 1)

\* The "Phrase" tree of MelodyEngineAudioProcessor::getStateInformation
phraseToValueTree(ph) ==
  [type |-> "Phrase", rootNote |-> ph.rootNote, scaleName |-> ph.scaleName,
   children |-> EventTrees(ph, 0)]

\* setStateInformation of the melody engine, up to the reset of the events
PhraseRestoreHead(ph, tree) ==
  [rootNote |-> tree.rootNote, scaleName |-> tree.scaleName,
   events |-> [i \in PhraseSteps |-> [ph.events[i] EXCEPT !.active = FALSE]]]

\* setStateInformation of the melody engine, the loop over the children
PhraseRestoreEvents(ph, tree) ==
  [ph EXCEPT !.events = [i \in PhraseSteps |->
     LET hits == {k \in 1 .. Len(tree.children) : tree.children[k].index = i}
     IN IF hits = {} THEN ph.events[i]
        ELSE LET c == tree.children[Max(hits)]
             IN [ph.events[i] EXCEPT !.active = TRUE, !.pitch = c.pitch,
                   !.velocity = c.velocity, !.duration = c.duration,
                   !.probability = c.probability]]]

\* getStateInformation: the host is handed the tree of the authoritative
\* pattern/phrase, read on the message thread
GetStateInformation ==
  /\ uiPc = "idle"
  /\ savedState' = IF plugin = Rhythm THEN patternToValueTree(pattern)
                   ELSE phraseToValueTree(phrase)
  /\ UNCHANGED <<plugin, rhythmVars, melodyVars, fifoVars, uiVars, audioVars, seqVars,
                 histVars>>

\* setStateInformation with a state the host saved earlier, first part: the
\* first tracks of the pattern; rootNote, scaleName and the reset of the
\* events of the phrase
SetStateInformation_Begin ==
  /\ uiPc = "idle"
  /\ savedState.type # "None"
  /\ IF plugin = Rhythm
     THEN /\ pattern' = patternFromValueTree(pattern, savedState, FirstTracks)
          /\ UNCHANGED phrase
     ELSE /\ phrase' = PhraseRestoreHead(phrase, savedState)
          /\ UNCHANGED pattern
  /\ uiPc' = "restore"
  /\ UNCHANGED <<plugin, patternSnapshot, patternDirty, patternMutex, cachedPattern,
                 phraseSnapshot, phraseDirty, phraseMutex, cachedPhrase,
                 fifoVars, uiCmd, writer, audioVars, seqVars, savedState, histVars>>

\* setStateInformation, second part: the remaining tracks; the loop over
\* the saved events
SetStateInformation_Finish ==
  /\ uiPc = "restore"
  /\ IF plugin = Rhythm
     THEN /\ pattern' = patternFromValueTree(pattern, savedState, Tracks \ FirstTracks)
          /\ UNCHANGED phrase
     ELSE /\ phrase' = PhraseRestoreEvents(phrase, savedState)
          /\ UNCHANGED pattern
  /\ uiPc' = "idle"
  /\ UNCHANGED <<plugin, patternSnapshot, patternDirty, patternMutex, cachedPattern,
                 phraseSnapshot, phraseDirty, phraseMutex, cachedPhrase,
                 fifoVars, uiCmd, writer, audioVars, seqVars, savedState, histVars>>

HostStateNext ==
  \/ GetStateInformation
  \/ SetStateInformation_Begin
  \/ SetStateInformation_Finish

\* The exchange, with edits of one cell of the grid or of the canvas and a
\* host that also saves and restores the state
StateNext == LiveNext \/ HostStateNext

SpecState == Init /\ [][StateNext]_vars

\* C5: the authoritative pattern/phrase is written by command application
\* inside the render call only: every step that changes it is the drain of
\* a render block applying its commands.
C5_WrittenByDrainOnly ==
  [][Authoritative' # Authoritative => (aPc = "apply" /\ aPc' = "finishRead")]_vars

(***************************************************************************)
(* Properties of the command queue                                         *)
(***************************************************************************)
\* The authoritative pattern/phrase as the constructor leaves it
InitialAuthoritative ==
  IF plugin = Rhythm THEN InitializeDefaultPattern ELSE InitializeDefaultPhrase

\* The commands cmds applied one after the other, each as one turn of the
\* loop of the processCommands lambda
RECURSIVE Replay(_, _)
Replay(st, cmds) ==
  IF cmds = <<>> THEN st
  ELSE Replay(IF plugin = Rhythm THEN RhythmProcessCommand(st, Head(cmds))
              ELSE MelodyProcessCommand(st, Head(cmds)),
              Tail(cmds))

\* The commands in the ready slots of the ring, oldest first
Pending ==
  Batch(commandBuffer,
        PrepareToRead(GetNumReady(validStart, validEnd), validStart, validEnd))

IsPrefix(a, b) == Len(a) <= Len(b) /\ \A i \in 1 .. Len(a) : a[i] = b[i]

InQueueCommand == uiPc \in QueueCopyPcs \cup QueueFinishPcs

\* A step of a queueCommand whose ScopedWrite is empty: the ring was full
DroppingStep ==
  /\ InQueueCommand
  /\ writer.blockSize1 + writer.blockSize2 = 0
  /\ uiPc' # uiPc

\* The command names a track and a step of the pattern, or a step of the
\* phrase
IndicesInRange(cmd) ==
  IF plugin = Rhythm THEN cmd.trackIdx \in Tracks /\ cmd.stepIdx \in Steps
  ELSE cmd.stepIdx \in PhraseSteps

\* C7: a queueCommand that finds the ring full does not wait (it always has
\* its next step to take), changes no slot and neither cursor, and the
\* command it dropped is neither among the accepted commands nor among the
\* consumed ones, now or later, while the commands that were queued stay in
\* the ring as they were.
C7_FullRingDrops ==
  /\ [](InQueueCommand => ENABLED (QueueCommand_Copy \/ QueueCommand_Finish))
  /\ [][DroppingStep => (UNCHANGED <<commandBuffer, validStart, validEnd>>
                          /\ Pending' = Pending)]_vars
  /\ [](\A d \in dropped :
          /\ \A i \in 1 .. Len(accepted) : accepted[i].id # d.id
          /\ \A i \in 1 .. Len(consumed) : consumed[i].id # d.id)

\* C7 witness: an in-range command was dropped on a full ring, and the
\* command that was queued before it has since been consumed, leaving the
\* ring empty
C7_DroppedThenOlderConsumed ==
  /\ \E d \in dropped : IndicesInRange(d) /\ d.id = 1
  /\ Len(consumed) = 1
  /\ consumed[1].id = 0
  /\ GetNumReady(validStart, validEnd) = 0
  /\ aPc = "seq"

\* A step in which a drain applies its batch
DrainStep == aPc = "apply" /\ aPc' = "finishRead"

C9_RejectedAtEnqueue ==
  /\ \A i \in 1 .. Len(accepted) : IndicesInRange(accepted[i])
  /\ \A i \in Slots : commandBuffer[i].type # "Unwritten" => IndicesInRange(commandBuffer[i])

(***************************************************************************)
(* One bar of the RhythmEngine sequencer                                   *)
(***************************************************************************)
\* The host of the scenario: 120 BPM at 48 kHz, one bar of 4 beats
BarHost == [bpm |-> 120, sampleRate |-> 48000, barSamples |-> 96000]

\* The block lengths the host partitions the bar into
BlockSizes == {480, 960}

\* Values of random.nextFloat(), in hundredths, the same for every track
BarDraws == {[t \in Tracks |-> 0], [t \in Tracks |-> 99]}

\* The play head of a playing host at sample time t
PlayingAt(t) ==
  [playHead |-> TRUE, position |-> TRUE, isPlaying |-> TRUE, bpm |-> BarHost.bpm, time |-> t]

\* A block of the bar: the host plays on from where the last block ended
Render_BarBlock ==
  \E n \in BlockSizes, draws \in BarDraws :
    /\ hostTime + n <= BarHost.barSamples
    /\ Render_Sequencer(PlayingAt(hostTime), n, BarHost.sampleRate, draws)

\* A block rendered before the host starts playing
Render_BeforeStart ==
  /\ hostTime = 0
  /\ lastProcessedSampleTime < 0
  /\ Render_Sequencer(Stopped, IdleBlock.numSamples, IdleBlock.sampleRate, IdleBlock.draws)

BarNext ==
  \/ BeginBlock
  \/ Render_BeforeStart
  \/ Render_BarBlock
  \/ UpdateSnapshot_TryLock

InitBar == plugin = Rhythm /\ InitExchange /\ InitSequencer

SpecBar == InitBar /\ [][BarNext]_vars

\* C10: from a stopped transport and the default pattern, once exactly one
\* bar (96000 samples from sample time 0 at 120 BPM and 48 kHz) has been
\* rendered, in whatever blocks, the kick envelope has been triggered
\* exactly 4 times.
C10_KickFourTimesPerBar ==
  (hostTime = BarHost.barSamples /\ aPc = "idle") => triggers[Kick] = 4

(***************************************************************************)
(* The RhythmEngine sequencer under a playing host                         *)
(***************************************************************************)
\* getSampleRate() of the sequencer runs
SeqSampleRate == 8000

\* The tempi of the host: 500 samples per step, and 3000/7 samples per step
SeqBpms == {240, 280}

\* The block lengths the host renders
SeqBlockSizes == {500, 750}

\* The host plays up to SeqEnd (the third pass of the pattern begins at
\* 16000 at 240 BPM) and, once it has stopped and started again, up to
\* SeqRestartEnd
SeqEnd == 18000
SeqRestartEnd == 1500

\* The host stops at most MaxStops times
MaxStops == 1

\* A pattern with every modifier the sequencer looks at: SkipCycle on every
\* kick step, OnlyFirstCycle on every bass step, Ratchet2 and Ratchet4 on
\* the even and odd hat steps, and one clap step with OnlyFirstCycle and
\* probability 0.5
ModifierPattern ==
  [tracks |-> [k \in Tracks |->
     [steps |-> [i \in Steps |->
        CASE k = Kick -> [DefaultStep EXCEPT !.active = TRUE, !.modifier = "SkipCycle"]
          [] k = Bass -> [DefaultStep EXCEPT !.active = TRUE, !.modifier = "OnlyFirstCycle"]
          [] k = Hat -> [DefaultStep EXCEPT !.active = TRUE,
                           !.modifier = IF i % 2 = 0 THEN "Ratchet2" ELSE "Ratchet4"]
          [] OTHER -> IF i = 2
                      THEN [DefaultStep EXCEPT !.active = TRUE, !.probability = 50,
                                               !.modifier = "OnlyFirstCycle"]
                      ELSE DefaultStep],
      midiNote |-> DefaultTrackNote(k),
      name |-> DefaultTrackName(k)]]]

\* setStateInformation before the first block, with the state of a session
\* that held pattern p
SetStateInformation_Session(p) ==
  /\ plugin = Rhythm
  /\ aPc = "idle" /\ uiPc = "idle"
  /\ lastBlock = NoBlock
  /\ pattern = InitializeDefaultPattern
  /\ pattern' = patternFromValueTree(pattern, patternToValueTree(p), Tracks)
  /\ UNCHANGED <<plugin, patternSnapshot, patternDirty, patternMutex, cachedPattern,
                 melodyVars, fifoVars, uiVars, audioVars, seqVars, savedState, histVars>>

\* The play head of a host playing at sample time t
SeqPlayingAt(t, bpm) ==
  [playHead |-> TRUE, position |-> TRUE, isPlaying |-> TRUE, bpm |-> bpm, time |-> t]

\* A block of a playing host, which has restored its session: the first
\* block starts at sample time 0 and sets the tempo, each further block
\* follows the one before
Render_SeqBlock ==
  \E n \in SeqBlockSizes, bpm \in SeqBpms, draws \in BarDraws :
    LET t == IF playStart = <<>> THEN 0 ELSE hostTime
    IN /\ pattern = ModifierPattern
       /\ playStart = <<>> \/ bpm = currentBpm
       /\ t + n <= (IF stops = 0 THEN SeqEnd ELSE SeqRestartEnd)
       /\ Render_Sequencer(SeqPlayingAt(t, bpm), n, SeqSampleRate, draws)

\* A block rendered after the host has stopped the transport
Render_SeqStopped ==
  /\ stops < MaxStops
  /\ playStart # <<>>
  /\ hostTime \in {750, 1250}
  /\ Render_Sequencer(Stopped, IdleBlock.numSamples, SeqSampleRate, IdleBlock.draws)

SeqNext ==
  \/ SetStateInformation_Session(ModifierPattern)
  \/ BeginBlock
  \/ Render_SeqBlock
  \/ Render_SeqStopped
  \/ UpdateSnapshot_TryLock

SpecSeq == InitBar /\ [][SeqNext]_vars

\* The step of the running transport that sample time t lies in, counted
\* from sample time 0
AbsStep(t) == StepIdxAt(t, currentBpm, SeqSampleRate)

\* The first sample time of step j of the running transport: the least
\* integer t with t >= j * samplesPerStep
StepStart(j) == -((-(j * 15 * SeqSampleRate)) \div currentBpm)

\* The steps whose first sample the running transport has rendered, and
\* those it has rendered from the first sample to the last
StepsBegun == {j \in 0 .. AbsStep(hostTime) :
                 StepStart(j) >= playStart[1] /\ StepStart(j) < hostTime}
StepsPlayed == {j \in StepsBegun : StepStart(j + 1) <= hostTime}

\* The triggers of track k in step j, and whether the trigger of the step
\* itself is among them
FiredIn(k, j) == {i \in DOMAIN fired : fired[i].track = k /\ AbsStep(fired[i].time) = j}
MainFired(k, j) == \E i \in FiredIn(k, j) : fired[i].sub = 0

\* floor(totalSamples / samplesPerStep) of the running transport
ExpectedBoundaries ==
  ((hostTime - playStart[1]) * currentBpm) \div (15 * SeqSampleRate)

SequencerRunning == plugin = Rhythm /\ playStart # <<>>

\* C11: while the rhythm engine plays contiguous blocks at a fixed tempo,
\* whatever the block lengths, the number of step boundaries detected so
\* far is floor(totalSamples / samplesPerStep) give or take one, every
\* detected index is the index of the step its sample lies in, and each
\* detection is for the step after the one detected before it: no step is
\* detected twice and the indices are consecutive modulo NUM_STEPS.
C11_BoundaryOncePerStep ==
  SequencerRunning =>
    /\ Len(boundaries) - ExpectedBoundaries \in {-1, 0, 1}
    /\ \A i \in DOMAIN boundaries :
         /\ boundaries[i].step = AbsStep(boundaries[i].time) % NUM_STEPS
         /\ i > 1 => /\ AbsStep(boundaries[i].time) = AbsStep(boundaries[i - 1].time) + 1
                     /\ boundaries[i].step = (boundaries[i - 1].step + 1) % NUM_STEPS

\* C11 witness: at 280 BPM, where a step is not a whole number of samples,
\* the transport has gone round the pattern and the count is one short of
\* floor(totalSamples / samplesPerStep)
C11_WrappedOneShort ==
  /\ SequencerRunning
  /\ currentBpm = 280
  /\ Len(boundaries) > NUM_STEPS
  /\ Len(boundaries) = ExpectedBoundaries - 1

\* The number of triggers a ratchet modifier stands for
RatchetFires(mod) == IF mod = "Ratchet2" THEN 2 ELSE 4

\* C12: an active step with probability 1 and modifier Ratchet2 (Ratchet4)
\* that the transport has played from its first sample to its last has
\* triggered its voice exactly 2 (4) times; every step position, the first
\* step after a start included.
C12_RatchetFiresPerStep ==
  SequencerRunning =>
    \A k \in Tracks, j \in StepsPlayed :
      LET step == pattern.tracks[k].steps[j % NUM_STEPS]
      IN (step.active /\ step.probability = 100
            /\ step.modifier \in {"Ratchet2", "Ratchet4"})
         => Cardinality(FiredIn(k, j)) = RatchetFires(step.modifier)

\* C13: playing on from a first start at sample time 0, an active step with
\* probability 1 has triggered in pass j \div NUM_STEPS of the pattern
\* exactly if that pass is an even one (SkipCycle), the first one
\* (OnlyFirstCycle); every step index.
C13_CycleGatesFollowPasses ==
  (SequencerRunning /\ stops = 0 /\ playStart = <<0>>) =>
    \A k \in Tracks, j \in StepsBegun :
      LET step == pattern.tracks[k].steps[j % NUM_STEPS]
          pass == j \div NUM_STEPS
      IN (step.active /\ step.probability = 100) =>
           /\ step.modifier = "SkipCycle" => (MainFired(k, j) <=> pass % 2 = 0)
           /\ step.modifier = "OnlyFirstCycle" => (MainFired(k, j) <=> pass = 0)

\* The boundaries the last block detected
LastBoundaries ==
  {boundaries[i] : i \in (Len(boundaries) - lastBlock.detected + 1) .. Len(boundaries)}

\* The gate of a modifier in loop number loop
GatePasses(mod, loop) ==
  CASE mod = "SkipCycle" -> loop % 2 = 0
    [] mod = "OnlyFirstCycle" -> loop = 0
    [] OTHER -> TRUE

\* A trigger of track k made by the boundary code at sample time t
TriggeredAt(k, t) ==
  \E i \in DOMAIN fired : fired[i].track = k /\ fired[i].time = t /\ fired[i].sub = 0

\* C14: at every step boundary the last block detected, each track's voice
\* was triggered exactly if the step is active, the gate of its modifier
\* passes for the loop count of that boundary, and the block's draw for the
\* track is <= the step's probability.
C14_TriggerIffActiveGateDraw ==
  (plugin = Rhythm /\ lastBlock.detected > 0) =>
    \A b \in LastBoundaries, k \in Tracks :
      LET step == pattern.tracks[k].steps[b.step]
      IN TriggeredAt(k, b.time) <=>
           (step.active /\ GatePasses(step.modifier, b.loop)
              /\ lastBlock.draws[k] <= step.probability)

\* C14 witness: the boundary of step 2 in the second pass with the largest
\* draw: the kick (SkipCycle) and the clap (OnlyFirstCycle) are gated out,
\* the bass triggers on neither pass, the hat triggers
C14_GatedOutInSecondPass ==
  /\ plugin = Rhythm
  /\ lastBlock.detected > 0
  /\ lastBlock.draws[Clap] = 99
  /\ \E b \in LastBoundaries :
       /\ b.step = 2 /\ b.loop = 1
       /\ TriggeredAt(Hat, b.time)
       /\ ~TriggeredAt(Kick, b.time) /\ ~TriggeredAt(Clap, b.time)
       /\ pattern.tracks[Kick].steps[2].active

\* The sequencer members of a freshly constructed engine, and those of the
\* engine as it is, with the histories of the transport cleared
FreshSequencer ==
  [last |-> -1, loop |-> 0, lastStep |-> -1, stepAtomic |-> -1,
   rc |-> [k \in Tracks |-> 0], trig |-> [k \in Tracks |-> 0],
   det |-> <<>>, fired |-> <<>>, idx |-> {}, stray |-> DefaultStep]
StoppedSequencer ==
  [last |-> lastProcessedSampleTime, loop |-> currentLoopCount,
   lastStep |-> lastStepForLoopDetection, stepAtomic |-> currentStepAtomic,
   rc |-> ratchetCounters, trig |-> [k \in Tracks |-> 0],
   det |-> <<>>, fired |-> <<>>, idx |-> {}, stray |-> DefaultStep]

\* C15: after a block in which the transport is not playing,
\* lastProcessedSampleTime is the sentinel, the published step index is -1,
\* currentLoopCount is 0 and the loop-detection state is cleared, the
\* ratchet sub-step counters hold nothing from before the stop, and a start
\* from this state detects and triggers exactly what a start of a freshly
\* constructed engine does.
C15_StopLeavesFreshEngine ==
  (plugin = Rhythm /\ stops > 0 /\ playStart = <<>>) =>
    /\ lastProcessedSampleTime = -1
    /\ currentStepAtomic = -1
    /\ currentLoopCount = 0
    /\ lastStepForLoopDetection = -1
    /\ ratchetCounters = FreshSequencer.rc
    /\ \A bpm \in SeqBpms, draws \in BarDraws :
         SequencerLoop(StoppedSequencer, 0, SeqRestartEnd, 0, bpm, SeqSampleRate,
                       pattern, draws)
           = SequencerLoop(FreshSequencer, 0, SeqRestartEnd, 0, bpm, SeqSampleRate,
                           pattern, draws)

(***************************************************************************)
(* Both engines under a host that plays from any position, stops, or has   *)
(* no transport to report                                                  *)
(***************************************************************************)
\* The host plays HostSpan samples from where it started, in blocks of half
\* a step or of a whole step at 240 BPM
HostSpan == 1500
HostBlockSizes == {250, 500}

\* Hosts that give no play head, or a play head without a position
MissingHosts == {NoPlayHead, NoPosition}

\* A block of a playing host: the first block starts in a pre-roll before
\* position 0, at position 0, or in the last steps of the 64-step phrase
\* (32000 samples at 240 BPM), each further block follows the one before. The rhythm engine is played
\* at the tempo of the first block; the melody engine, which keeps nothing
\* from block to block, at any tempo. Every step and event played has
\* probability 1, so one value of random.nextFloat() stands for all
Render_HostPlaying ==
  \E start \in {-1250, 0, 31000}, n \in HostBlockSizes, bpm \in SeqBpms :
    LET t == IF playStart = <<>> THEN start ELSE hostTime
        first == IF playStart = <<>> THEN start ELSE playStart[1]
        draws == IdleBlock.draws
    IN /\ plugin = Melody \/ playStart = <<>> \/ bpm = currentBpm
       /\ t + n <= first + HostSpan
       /\ IF plugin = Rhythm
          THEN Render_Sequencer(SeqPlayingAt(t, bpm), n, SeqSampleRate, draws)
          ELSE Render_MelodyPlaying(SeqPlayingAt(t, bpm), n, SeqSampleRate, draws[Kick])

\* A block of a host whose transport is stopped or missing
Render_HostIdle ==
  \E h \in MissingHosts \cup {Stopped}, n \in HostBlockSizes :
    /\ playStart = <<>> \/ stops < MaxStops
    /\ Render_Sequencer(h, n, SeqSampleRate, IdleBlock.draws)

HostNext ==
  \/ BeginBlock
  \/ Render_HostPlaying
  \/ Render_HostIdle
  \/ UpdateSnapshot_TryLock

SpecHost == Init /\ [][HostNext]_vars

ValidStepIndex ==
  IF plugin = Rhythm THEN currentStepAtomic \in Steps ELSE currentStepAtomic \in PhraseSteps

\* C17: the published step index is -1 after every block in which the
\* transport is stopped, and in every reachable state, whatever position
\* the host reports, it is -1 or a valid step index of the engine.
C17_StepIndexValidOrStopped ==
  /\ playStart = <<>> => currentStepAtomic = -1
  /\ currentStepAtomic = -1 \/ ValidStepIndex

(***************************************************************************)
(* The rhythm engine under a host that saves its state and restores the    *)
(* states of other sessions                                                *)
(***************************************************************************)
\* Patterns 0 .. MaxSession of other sessions: every modifier, velocities
\* and probabilities all over 0 .. 1, active and inactive steps, differing
\* from one session to the next in every track
MaxSession == 5

SessionPattern(v) ==
  [tracks |-> [k \in Tracks |->
     [steps |-> [i \in Steps |->
        [active |-> (k + i + v) % 2 = 0,
         velocity |-> (37 * v + 5 * i + k) % 101,
         probability |-> (53 * v + 7 * i + 3 * k) % 101,
         modifier |-> ModifierOrder[((k + i + v) % Len(ModifierOrder)) + 1]]],
      midiNote |-> 36 + v + k,
      name |-> DefaultTrackName(k)]]]

SessionPatterns == {SessionPattern(v) : v \in 0 .. MaxSession} \cup {ModifierPattern}

\* The host holds what getStateInformation returned in a session whose
\* engine held pattern p
OpenSession(p) ==
  /\ plugin = Rhythm
  /\ uiPc = "idle"
  /\ savedState' = patternToValueTree(p)
  /\ UNCHANGED <<plugin, rhythmVars, melodyVars, fifoVars, uiVars, audioVars, seqVars,
                 histVars>>

PersistNext ==
  \/ \E p \in SessionPatterns : OpenSession(p)
  \/ HostStateNext

SpecPersist == InitBar /\ [][PersistNext]_vars

\* active, velocity, probability and modifier of every step of every track
StepFields(p) ==
  [k \in Tracks |-> [i \in Steps |->
     [f \in {"active", "velocity", "probability", "modifier"} |-> p.tracks[k].steps[i][f]]]]

\* C18: when setStateInformation has restored the tree patternToValueTree
\* made of a pattern p, whatever pattern the engine held before, the active,
\* velocity, probability and modifier fields of every step of every track of
\* the engine's pattern equal those of p.
C18_PatternRoundTrip ==
  [][SetStateInformation_Finish =>
       \A p \in SessionPatterns \cup {InitializeDefaultPattern} :
         savedState = patternToValueTree(p) => StepFields(pattern') = StepFields(p)]_vars

\* C18 witness: the engine holds the pattern of the last session, restored
\* from the host's tree (a freshly constructed engine holds the default
\* pattern, and nothing else writes the pattern here)
C18_SessionRestored ==
  /\ plugin = Rhythm
  /\ uiPc = "idle"
  /\ savedState = patternToValueTree(SessionPattern(MaxSession))
  /\ StepFields(pattern) = StepFields(SessionPattern(MaxSession))
  /\ \E k \in Tracks, i \in Steps : pattern.tracks[k].steps[i].modifier = "Glide"

\* active, velocity, probability and modifier of the 64 events of a phrase
EventFields(ph) ==
  [i \in PhraseSteps |->
     [f \in {"active", "velocity", "probability", "modifier"} |-> ph.events[i][f]]]

\* The phrase of a freshly constructed melody engine after
\* setStateInformation with what getStateInformation makes of phrase ph
RestoredInFreshEngine(ph) ==
  PhraseRestoreEvents(PhraseRestoreHead(InitializeDefaultPhrase, phraseToValueTree(ph)),
                      phraseToValueTree(ph))

\* C19: the phrase of the melody engine, saved by getStateInformation and
\* restored by setStateInformation in a freshly constructed engine, comes
\* back with the same active, velocity, probability and modifier in every
\* one of the 64 events, active or not.
C19_PhraseRoundTrip ==
  plugin = Melody => EventFields(RestoredInFreshEngine(phrase)) = EventFields(phrase)

(***************************************************************************)
(* The melody engine playing a note of a restored phrase                   *)
(***************************************************************************)
\* The highest MIDI note
MaxMidiNote == 127

\* The phrase of a session with the given root and scale and, on step 1,
\* an active event of pitch n
NotePhrase(n, root, scale) ==
  [DefaultConstructedPhrase EXCEPT
     !.rootNote = root, !.scaleName = scale,
     !.events[1] = [DefaultNoteEvent EXCEPT !.active = TRUE, !.pitch = n]]

\* setStateInformation before the first block, with the state of a session
\* that held NotePhrase(n, root, scale)
SetStateInformation_Phrase(n, root, scale) ==
  /\ plugin = Melody
  /\ aPc = "idle" /\ uiPc = "idle"
  /\ lastBlock = NoBlock
  /\ phrase = InitializeDefaultPhrase
  /\ \E tree \in {phraseToValueTree(NotePhrase(n, root, scale))} :
       phrase' = PhraseRestoreEvents(PhraseRestoreHead(phrase, tree), tree)
  /\ UNCHANGED <<plugin, rhythmVars, phraseSnapshot, phraseDirty, phraseMutex, cachedPhrase,
                 fifoVars, uiVars, audioVars, seqVars, savedState, histVars>>

\* The first block of a host that starts playing at position 0: the
\* boundary of step 1 is the first sample of the block
Render_FirstNote ==
  /\ playStart = <<>>
  /\ phrase # InitializeDefaultPhrase
  /\ Render_MelodyPlaying(SeqPlayingAt(0, 240), IdleBlock.numSamples,
                          SeqSampleRate, 0)

\* The restored phrases have every pitch and every root up to 11 (quantize
\* looks at rootNote % 12 only), and the default root 60
QuantizeNext ==
  \/ \E n \in 0 .. MaxMidiNote, root \in 0 .. 11 \cup {60}, scale \in ScaleNames :
       SetStateInformation_Phrase(n, root, scale)
  \/ BeginBlock
  \/ Render_FirstNote
  \/ UpdateSnapshot_TryLock

\* The melody engine after construction
InitPhrase == plugin = Melody /\ InitExchange /\ InitSequencer

SpecQuantize == InitPhrase /\ [][QuantizeNext]_vars

\* The notes the synth was triggered with
TriggeredNotes == {fired[i].note : i \in {j \in DOMAIN fired : fired[j].track = "Synth"}}

\* C20: a note the melody engine has quantized to the phrase's root and
\* scale is left as it is by quantizing it again: quantize(quantize(n, root,
\* scale), root, scale) = quantize(n, root, scale), for every n in 0 .. 127,
\* every root and every scale name.
C20_QuantizeIdempotent ==
  plugin = Melody =>
    \A q \in TriggeredNotes :
      /\ q = quantize(phrase.events[1].pitch, phrase.rootNote, phrase.scaleName)
      /\ quantize(q, phrase.rootNote, phrase.scaleName) = q

\* C20 witness: the highest note, which is not in the Phrygian scale on C sharp,
\* was moved by the quantizer
C20_TopNoteMoved ==
  /\ plugin = Melody
  /\ phrase.events[1].pitch = MaxMidiNote
  /\ phrase.rootNote = 1
  /\ phrase.scaleName = "Phrygian"
  /\ TriggeredNotes # {}
  /\ MaxMidiNote \notin TriggeredNotes

\* The pitch of the restored phrase is in the phrase's scale: its pitch
\* class relative to the root is one of the scale's intervals
PitchInScale ==
  \E i \in DOMAIN scales(phrase.scaleName) :
    scales(phrase.scaleName)[i] = (phrase.events[1].pitch - phrase.rootNote) % 12

\* C21: a note whose pitch class relative to the root is one of the
\* intervals of the scale is triggered as it is, for every scale, every
\* root and every note 0 .. 127; in particular quantize(60, 60, "Minor") is 60.
C21_InScaleNoteKept ==
  (plugin = Melody /\ PitchInScale) => TriggeredNotes \subseteq {phrase.events[1].pitch}

\* C21 witness: the root itself, 60 in Minor on 60, was triggered as 60
C21_RootKept ==
  /\ plugin = Melody
  /\ phrase.events[1].pitch = 60 /\ phrase.rootNote = 60 /\ phrase.scaleName = "Minor"
  /\ PitchInScale
  /\ TriggeredNotes = {60}

\* The phrase of the example: note 61 in Minor on 60
Note61InMinorOn60 ==
  /\ plugin = Melody
  /\ phrase.events[1].pitch = 61 /\ phrase.rootNote = 60 /\ phrase.scaleName = "Minor"

\* C22 as the sentence has it: quantize(61, 60, "Minor") is 62.
C22_ResolvesTo62 == Note61InMinorOn60 => TriggeredNotes \subseteq {62}

\* C22, amended: quantize(61, 60, "Minor") is 60; of the two nearest notes
\* of the scale, 60 and 62, the one of the earlier interval is taken.
C22_ResolvesTo60 == Note61InMinorOn60 => TriggeredNotes \subseteq {60}

\* C22 witness: note 61 was triggered as 60
C22_Triggered60 == Note61InMinorOn60 /\ TriggeredNotes = {60}

-----------------------------------------------------------------------------
\* The split render of the melody block

\* The sample indices a sequence of synth calls renders, in the order it
\* renders them: processBlock(startSample, numSamples) renders startSample + i
\* for i = 0 .. numSamples - 1, triggerBaseNote renders nothing
RECURSIVE RenderedSamples(_)
RenderedSamples(calls) ==
  IF calls = <<>> THEN <<>>
  ELSE RenderedSamples(SubSeq(calls, 1, Len(calls) - 1))
       \o (LET c == calls[Len(calls)]
           IN IF c.op = "processBlock"
              THEN [i \in 1 .. c.numSamples |-> c.startSample + i - 1]
              ELSE <<>>)

\* The indices from .. to - 1 in increasing order
Ascending(from, to) == [i \in 1 .. to - from |-> from + i - 1]

\* The synth calls of a melody block of n samples render 0 .. n - 1 once
\* each in increasing order, and a trigger at offset k comes after exactly
\* the samples 0 .. k - 1 and before exactly the samples k .. n - 1
SplitRender(calls, k, n) ==
  /\ RenderedSamples(calls) = Ascending(0, n)
  /\ \A j \in DOMAIN calls :
       calls[j].op = "triggerBaseNote" =>
         /\ RenderedSamples(SubSeq(calls, 1, j - 1)) = Ascending(0, k)
         /\ RenderedSamples(SubSeq(calls, j + 1, Len(calls))) = Ascending(k, n)

\* C23: in every melody block, playing or not, each sample index
\* 0 .. numSamples - 1 is rendered exactly once and in increasing order, and
\* when a step boundary falls at offset k of the block the samples 0 .. k - 1
\* are rendered before the step's note is triggered and the samples
\* k .. numSamples - 1 after it
C23_EachSampleRenderedOnceInOrder ==
  [][\A n \in HostBlockSizes :
       /\ \A h \in MissingHosts \cup {Stopped} :
            (plugin = Melody /\ Render_Sequencer(h, n, SeqSampleRate, IdleBlock.draws))
              => SplitRender(lastBlock'.calls, 0, n)
       /\ \A start \in {-1250, 0, 31000}, bpm \in SeqBpms :
            LET t == IF playStart = <<>> THEN start ELSE hostTime
            IN Render_MelodyPlaying(SeqPlayingAt(t, bpm), n, SeqSampleRate, 0)
                 => SplitRender(lastBlock'.calls,
                                SamplesToNextStep(t, bpm, SeqSampleRate), n)]_vars

\* C23 witness: a block of 500 samples was split at offset 250, where it
\* triggered a note between its two segments
C23_SplitInTheMiddle ==
  /\ plugin = Melody
  /\ lastBlock.calls = <<SynthProcessBlock(0, 250), [op |-> "triggerBaseNote"],
                         SynthProcessBlock(250, 250)>>

-----------------------------------------------------------------------------
\* Heap allocation in the render call

\* C24: no block allocates dynamic memory: the drain, the step trigger with
\* its scale quantization, the synthesis and the snapshot publishing use
\* preallocated, fixed-size storage only
C24_NoAllocationInRender == lastBlock.allocated = <<>>

\* A melody block that triggered a note allocated a copy of the seven
\* intervals of the scale
C24_TriggerAllocatesIntervals ==
  /\ plugin = Melody
  /\ \E j \in DOMAIN lastBlock.calls : lastBlock.calls[j].op = "triggerBaseNote"
  /\ Len(lastBlock.allocated) = 1
  /\ Len(lastBlock.allocated[1].elements) = 7

(***************************************************************************)
(* One envelope driven through its interface                               *)
(***************************************************************************)
\* Attack and decay times in milliseconds: the clap's and the kick's fixed
\* attacks and the least attack and decay of the melody's parameters
\* (RhythmEngine PluginProcessor.cpp:83, 348; MelodyEngine
\* PluginProcessor.cpp:343-348)
AttackTimes == {1, 5, 10}
DecayTimes == {10, 20}

\* The numbers of samples after a trigger at which a later block may find
\* changed parameters: during the attack, early and late in the decay
RetunePoints == {100, 1000, 3000}

\* Everything but the envelope
envelopeRest ==
  <<plugin, rhythmVars, melodyVars, fifoVars, uiVars, audioVars, hostTime,
    lastProcessedSampleTime, currentBpm, currentStepAtomic, currentLoopCount,
    lastStepForLoopDetection, ratchetCounters, triggers, boundaries, fired,
    lastBlock, playStart, stops, kickPhasor, stutterFX, savedState, histVars>>

\* prepareToPlay: setSampleRate, then setParameters
Envelope_Prepare ==
  \E sr \in {44100, 48000}, a \in AttackTimes, d \in DecayTimes :
    /\ envelope.state = "Idle"
    /\ envelope = DefaultEnvelope
    /\ envelope' = setParameters(setSampleRate(envelope, sr), a, d)
    /\ UNCHANGED envelopeRest

\* setParameters at the start of a block, while a note sounds
Envelope_SetParameters ==
  \E a \in AttackTimes, d \in DecayTimes :
    /\ envelope.state # "Idle"
    /\ ~envelope.retuned
    /\ envelope.sinceTrigger \in RetunePoints
    /\ setParameters(envelope, a, d) # [envelope EXCEPT !.retuned = TRUE]
    /\ envelope' = setParameters(envelope, a, d)
    /\ UNCHANGED envelopeRest

\* trigger() of a prepared envelope that is idle, that is in its attack, or
\* that has just reached the decay or is in the middle of it
Envelope_Trigger ==
  /\ envelope # DefaultEnvelope
  /\ \/ envelope.state = "Idle"
     \/ envelope.state = "Attack" /\ envelope.sinceTrigger \in RetunePoints
     \/ envelope.currentLevel \in {LevelOne, LevelOne \div 2}
  /\ envelope' = trigger(envelope)
  /\ UNCHANGED envelopeRest

\* One sample of a voice
Envelope_GetNextSample ==
  /\ envelope.state # "Idle"
  /\ envelope' = getNextSample(envelope)
  /\ UNCHANGED envelopeRest

EnvelopeNext ==
  \/ Envelope_Prepare
  \/ Envelope_SetParameters
  \/ Envelope_Trigger
  \/ Envelope_GetNextSample

SpecEnvelope == InitBar /\ [][EnvelopeNext]_vars

Render_EditedBlock ==
  \E start \in {IF plugin = Rhythm THEN 0 ELSE 31000}, n \in {500} :
    LET t == IF playStart = <<>> THEN start ELSE hostTime
        first == IF playStart = <<>> THEN start ELSE playStart[1]
    IN /\ t + n <= first + HostSpan
       /\ IF plugin = Rhythm
          THEN Render_Sequencer(SeqPlayingAt(t, 240), n, SeqSampleRate, IdleBlock.draws)
          ELSE Render_MelodyPlaying(SeqPlayingAt(t, 240), n, SeqSampleRate, 0)

EditNext ==
  \/ \E c \in ClickCells : MouseDown(c[1], c[2])
  \/ \E step \in DeleteSteps : MelodyMouseDownDelete(step)
  \/ \E step \in ClickSteps, row \in ClickRows : MelodyMouseDrag(step, row)
  \/ QueueCommand_Copy
  \/ QueueCommand_Finish
  \/ BeginBlock
  \/ Drain_Read
  \/ Drain_Apply
  \/ Drain_Finish
  \/ Render_EditedBlock
  \/ UpdateSnapshot_TryLock
  \/ UpdateSnapshot_Copy1
  \/ UpdateSnapshot_Copy2
  \/ UpdateSnapshot_Unlock

SpecEdit == Init /\ [][EditNext]_vars

\* The pattern or phrase with every command applied whose enqueue was
\* complete when the block in progress read the number of ready commands
EditedBeforeDrain ==
  Replay([data |-> InitialAuthoritative, dirty |-> FALSE],
         SubSeq(accepted, 1, drainStart)).data

\* C26: the sequencer section of a block runs after the block's drain, so
\* the triggers of the block are those of the pattern or phrase with every
\* command applied whose enqueue was complete before the drain began: the
\* section finds these commands consumed and the authoritative copy equal
\* to their replay, and at a step boundary it triggers exactly the voices
\* whose step is active in that replay
C26_DrainedBeforeSequencer ==
  [][(aPc = "seq" /\ aPc' = "publish") =>
       /\ consumed = SubSeq(accepted, 1, drainStart)
       /\ Authoritative = EditedBeforeDrain
       /\ lastBlock'.detected = 1 =>
            LET new == (Len(fired) + 1) .. Len(fired')
                step == currentStepAtomic'
            IN IF plugin = Rhythm
               THEN {fired'[i].track : i \in new}
                      = {k \in Tracks : EditedBeforeDrain.tracks[k].steps[step].active}
               ELSE (new # {})
                      <=> EditedBeforeDrain.events[(step + 1) % NUM_PHRASE_STEPS].active]_vars

\* C26 witness: the clap's step 1, switched on by a click whose command the
\* block at sample 500 drained, was triggered by that block
C26_ToggledStepTriggers ==
  /\ plugin = Rhythm
  /\ aPc = "publish"
  /\ numToDo > 0
  /\ hostTime = 1000
  /\ \E i \in DOMAIN fired : fired[i].track = Clap /\ fired[i].time = 500
  /\ ~InitializeDefaultPattern.tracks[Clap].steps[1].active

(***************************************************************************)
(* What a drained command writes                                           *)
(***************************************************************************)
\* One command of every type of RhythmCommand on a cell of its own, the last
\* of a type the lambda has no branch for, and one SetEvent
FrameRhythmCommands ==
  { RhythmCmd("ToggleStep", Kick, 1, 100, "Ratchet2"),
    RhythmCmd("UpdateVelocity", Bass, 2, 50, "Ratchet2"),
    RhythmCmd("SetModifier", Hat, 3, 50, "Ratchet2"),
    RhythmCmd("SetTrackGain", Clap, 4, 50, "Ratchet2") }

FrameMelodyCommands ==
  { MelodyCmd(5, [DefaultNoteEvent EXCEPT !.active = TRUE, !.pitch = 61]) }

CommandNext ==
  \/ \E cmd \in FrameRhythmCommands : QueueCommand(cmd)
  \/ \E cmd \in FrameMelodyCommands : MelodyQueueCommand(cmd, "qcCopy")
  \/ QueueCommand_Copy
  \/ QueueCommand_Finish
  \/ BeginBlock
  \/ Drain_Read
  \/ Drain_Apply
  \/ Drain_Finish
  \/ \E h \in StoppedHosts :
       Render_Sequencer(h, IdleBlock.numSamples, IdleBlock.sampleRate, IdleBlock.draws)
  \/ UpdateSnapshot_TryLock
  \/ UpdateSnapshot_Copy1
  \/ UpdateSnapshot_Copy2
  \/ UpdateSnapshot_Unlock

SpecCommands == Init /\ [][CommandNext]_vars

\* The field of a step a rhythm command type writes
WrittenField(type) ==
  CASE type = "ToggleStep" -> "active"
    [] type = "UpdateVelocity" -> "velocity"
    [] type = "SetModifier" -> "modifier"
    [] OTHER -> "none"

\* The commands of the batch the drain is applying
DrainedNow == {Batch(commandBuffer, reader)[i] : i \in DOMAIN Batch(commandBuffer, reader)}

RingEnqueues == 3

RingQueueCommand ==
  /\ uiPc = "idle"
  /\ enqueued < RingEnqueues
  /\ IF plugin = Rhythm
     THEN BeginWrite(RhythmCmd("ToggleStep", Kick, 1, 100, "None"), "qcCopy")
     ELSE BeginWrite(MelodyCmd(1, [DefaultNoteEvent EXCEPT !.active = TRUE]), "qcCopy")

RingNext ==
  \/ RingQueueCommand
  \/ QueueCommand_Copy
  \/ QueueCommand_Finish
  \/ BeginBlock
  \/ Drain_Read
  \/ Drain_Apply
  \/ Drain_Finish
  \/ \E h \in StoppedHosts :
       Render_Sequencer(h, IdleBlock.numSamples, IdleBlock.sampleRate, IdleBlock.draws)
  \/ UpdateSnapshot_TryLock
  \/ UpdateSnapshot_Copy1
  \/ UpdateSnapshot_Copy2
  \/ UpdateSnapshot_Unlock

SpecRing == Init /\ [][RingNext]_vars

\* The slots of a ScopedWrite or ScopedRead
SlotSet(b) == {BlockSlots(b)[i] : i \in DOMAIN BlockSlots(b)}

\* The slots between the read cursor and the write cursor
ReadySlots == SlotSet(PrepareToRead(FifoSize, validStart, validEnd))

C29_CleanSnapshotIsCurrent == (aPc = "idle" /\ ~Dirty) => Snapshot = Authoritative

(***************************************************************************)
(* A host that relocates while it plays                                    *)
(***************************************************************************)
\* Step boundaries detected in one behaviour of the relocating host
MaxJumpBoundaries == 3

\* The sample times a block of the relocating host may start at: a
\* pre-roll before sample 0, sample 0, later steps, in any order
JumpTimes == {-1250, -500, 0, 500, 7500}

\* A block of one step of the rhythm engine under a host that plays at 240
\* BPM and reports any of the sample times
Render_JumpBlock ==
  \E t \in JumpTimes :
    /\ Len(boundaries) < MaxJumpBoundaries
    /\ Render_Sequencer(SeqPlayingAt(t, 240), 500, SeqSampleRate, IdleBlock.draws)

JumpNext ==
  \/ BeginBlock
  \/ Render_JumpBlock
  \/ UpdateSnapshot_TryLock

SpecJump == InitBar /\ [][JumpNext]_vars

\* C30: whatever sample times the host reports, negative ones and ones that
\* jump backwards included, every index with which a block of the rhythm
\* engine reads pattern.tracks[t].steps[i], stepToTrigger at a boundary
\* and currentStep in the ratchet section, satisfies 0 <= i < NUM_STEPS
C30_StepIndicesInRange == lastBlock.stepIndices \subseteq Steps

\* C31: in the melody engine, for every position the host reports, pre-roll
\* positions before 0 included, the index nextStepIndex with which
\* phrase.events is read at a detected boundary is one of 0 ..
\* NUM_PHRASE_STEPS - 1.
C31_NextStepIndexInRange ==
  plugin = Melody => lastBlock.stepIndices \subseteq PhraseSteps

-----------------------------------------------------------------------------
\* The phrase event evaluated at a trigger point

\* The phrase step that begins at the first 16th-note boundary at or after
\* sample time t: ceil(ppq * 4) modulo the phrase length
BeginningStep(t, bpm, sampleRate) ==
  (-((-(t * bpm)) \div (15 * sampleRate))) % NUM_PHRASE_STEPS

\* C32: in the melody engine, whenever a block places a trigger point at
\* one of its sample offsets, the phrase event evaluated there is the event
\* of the step that begins at that boundary; this holds also for a block
\* that starts exactly on a step boundary, for which the trigger point is
\* offset 0 and the step is the one of the block's own position (at ppq 0,
\* events[0]). Stated for blocks at positions from 0 on.
C32_TriggerEvaluatesBeginningStep ==
  [][\A start \in {-1250, 0, 31000}, n \in HostBlockSizes, bpm \in SeqBpms :
       LET t == IF playStart = <<>> THEN start ELSE hostTime
       IN (t >= 0 /\ Render_MelodyPlaying(SeqPlayingAt(t, bpm), n, SeqSampleRate, 0))
            => lastBlock'.stepIndices \subseteq {BeginningStep(t, bpm, SeqSampleRate)}]_vars

\* A block that starts inside a step evaluates the step that begins at its
\* boundary: from sample 250 at 240 BPM the boundary is at offset 250 and
\* the event is events[1], which the default phrase leaves inactive
C32_MidStepBlockEvaluatesNext ==
  /\ plugin = Melody
  /\ hostTime = 750
  /\ lastBlock.calls = <<SynthProcessBlock(0, 250), SynthProcessBlock(250, 250)>>
  /\ lastBlock.stepIndices = {1}

-----------------------------------------------------------------------------
\* Boundaries crossed and boundaries evaluated by the melody engine

\* std::ceil(ppq * 4.0) for the ppq position of sample time t
CeilSteps(t, bpm, sampleRate) == -((-(t * bpm)) \div (15 * sampleRate))

\* The number of 16th-note boundaries the playhead crosses in the block of
\* n samples that starts at sample time t: boundary j lies in the block when
\* t <= j * 15 * sampleRate / bpm < t + n
BoundariesCrossed(t, n, bpm, sampleRate) ==
  CeilSteps(t + n, bpm, sampleRate) - CeilSteps(t, bpm, sampleRate)

\* C33: while the melody engine plays contiguous positions, every 16th-note
\* boundary the playhead crosses causes exactly one trigger evaluation of
\* one phrase event, whatever the block size: a block evaluates as many
\* events as it holds boundaries, none is skipped when a block holds more
\* than one or when a boundary lies on a block edge, and none is evaluated
\* twice.
C33_EveryBoundaryEvaluatedOnce ==
  [][\A start \in {-1250, 0, 31000}, n \in HostBlockSizes, bpm \in SeqBpms :
       LET t == IF playStart = <<>> THEN start ELSE hostTime
       IN Render_MelodyPlaying(SeqPlayingAt(t, bpm), n, SeqSampleRate, 0)
            => lastBlock'.detected = BoundariesCrossed(t, n, bpm, SeqSampleRate)]_vars

\* The same count for the blocks that are not longer than a step (240 BPM:
\* 500 samples a step), where it holds
C33_OnceInBlocksWithinAStep ==
  [][\A start \in {-1250, 0, 31000}, n \in HostBlockSizes :
       LET t == IF playStart = <<>> THEN start ELSE hostTime
       IN Render_MelodyPlaying(SeqPlayingAt(t, 240), n, SeqSampleRate, 0)
            => lastBlock'.detected = BoundariesCrossed(t, n, 240, SeqSampleRate)]_vars

(***************************************************************************)
(* Ratchet steps whose trigger the probability draw may suppress           *)
(***************************************************************************)
\* The host plays up to RatchetEnd
RatchetEnd == 3000

\* A pattern whose hat steps are all active with probability 0.5, Ratchet2
\* on the even and Ratchet4 on the odd ones, and whose kick steps are
\* Ratchet2 steps with probability 1
RatchetPattern ==
  [tracks |-> [k \in Tracks |->
     [steps |-> [i \in Steps |->
        CASE k = Hat -> [DefaultStep EXCEPT !.active = TRUE, !.probability = 50,
                           !.modifier = IF i % 2 = 0 THEN "Ratchet2" ELSE "Ratchet4"]
          [] k = Kick -> [DefaultStep EXCEPT !.active = TRUE, !.modifier = "Ratchet2"]
          [] OTHER -> DefaultStep],
      midiNote |-> DefaultTrackNote(k),
      name |-> DefaultTrackName(k)]]]

\* A block of a playing host, which has restored the session of
\* RatchetPattern: from sample time 0 on, one tempo, each block following
\* the one before; the draws of a block are all 0 or all 0.99
Render_RatchetBlock ==
  \E n \in SeqBlockSizes, bpm \in SeqBpms, draws \in BarDraws :
    LET t == IF playStart = <<>> THEN 0 ELSE hostTime
    IN /\ pattern = RatchetPattern
       /\ playStart = <<>> \/ bpm = currentBpm
       /\ t + n <= RatchetEnd
       /\ Render_Sequencer(SeqPlayingAt(t, bpm), n, SeqSampleRate, draws)

RatchetNext ==
  \/ SetStateInformation_Session(RatchetPattern)
  \/ BeginBlock
  \/ Render_RatchetBlock
  \/ UpdateSnapshot_TryLock

SpecRatchet == InitBar /\ [][RatchetNext]_vars

\* Whether a ratchet sub-step of track k fired in step j
SubStepFired(k, j) == \E i \in FiredIn(k, j) : fired[i].sub > 0

\* C34: a ratchet sub-step trigger is a re-fire of the step's main trigger:
\* in a Ratchet2 or Ratchet4 step a sub-step trigger fires only if the main
\* trigger of that step fired at its boundary; when the probability draw
\* suppressed the main trigger no sub-step fires in that step. Stated for
\* the steps whose boundary the transport has detected.
C34_SubStepsOnlyAfterMain ==
  SequencerRunning =>
    \A k \in Tracks, j \in StepsBegun :
      (StepStart(j) > playStart[1] /\ SubStepFired(k, j)) => MainFired(k, j)

\* A step whose main trigger fired and whose sub-steps followed it: the
\* second step of the kick has fired twice
C34_RatchetAfterMain ==
  /\ SequencerRunning
  /\ MainFired(Kick, 1)
  /\ SubStepFired(Kick, 1)

-----------------------------------------------------------------------------
\* Where in the rendered block a trigger takes effect

\* The number of output samples the calls synthesize
RECURSIVE SynthesizedBy(_)
SynthesizedBy(calls) ==
  IF calls = <<>> THEN 0
  ELSE (IF Head(calls).op = "audioLoop" THEN Head(calls).numSamples ELSE 0)
       + SynthesizedBy(Tail(calls))

\* The output sample at which the envelope restarted by call j of the block
\* starts its attack: the first sample synthesized after the call
RestartSample(calls, j) == SynthesizedBy(SubSeq(calls, 1, j - 1))

\* C35: the triggers of the rhythm engine are sample-accurate in the
\* rendered audio: a trigger detected at sample offset k of a block restarts
\* the voice envelope at output sample k of that block, the samples
\* 0 .. k - 1 being synthesized before it, so that two triggers detected at
\* different offsets of one block are two restarts at different samples.
C35_TriggerRestartsAtItsOffset ==
  plugin = Rhythm =>
    \A j \in DOMAIN lastBlock.calls :
      lastBlock.calls[j].op = "trigger" =>
        RestartSample(lastBlock.calls, j) = lastBlock.calls[j].offset

\* A block in which the kick was triggered at two different offsets, both
\* before any sample of the block was synthesized
C35_TwoTriggersOneRestart ==
  /\ plugin = Rhythm
  /\ \E i, j \in DOMAIN lastBlock.calls :
       /\ lastBlock.calls[i].op = "trigger" /\ lastBlock.calls[j].op = "trigger"
       /\ lastBlock.calls[i].track = Kick /\ lastBlock.calls[j].track = Kick
       /\ lastBlock.calls[i].offset < lastBlock.calls[j].offset
       /\ RestartSample(lastBlock.calls, i) = 0
       /\ RestartSample(lastBlock.calls, j) = 0

-----------------------------------------------------------------------------
\* The states of the one-shot envelope

\* enum class State { Idle, Attack, Decay, Hold }
EnvelopeStates == {"Idle", "Attack", "Decay", "Hold"}

\* C36: trigger() sets the state to Attack and the level to 0 from each of
\* the states Idle, Attack, Decay and Hold; after it, without another
\* trigger, getNextSample() moves the state only along Attack -> Decay ->
\* Idle: it leaves Attack exactly when the level reaches 1, it leaves Decay
\* exactly when the level has dropped below 0.001, which it replaces by 0;
\* the Hold state is never entered, and in Idle the level returned is 0.
C36_OneShotStateMachine ==
  [][/\ \A st \in EnvelopeStates :
          LET after == trigger([envelope EXCEPT !.state = st])
          IN after.state = "Attack" /\ after.currentLevel = 0
     /\ Envelope_Trigger => envelope'.state = "Attack" /\ envelope'.currentLevel = 0
     /\ Envelope_GetNextSample =>
          /\ <<envelope.state, envelope'.state>> \in
                {<<"Attack", "Attack">>, <<"Attack", "Decay">>,
                 <<"Decay", "Decay">>, <<"Decay", "Idle">>}
          /\ envelope.state = "Attack" =>
                (envelope'.state = "Decay" <=> envelope'.currentLevel = LevelOne)
          /\ envelope.state = "Decay" =>
                IF Decayed(envelope.currentLevel, envelope.decayCoeff) < LevelOne \div 1000
                THEN envelope'.state = "Idle" /\ envelope'.currentLevel = 0
                ELSE envelope'.state = "Decay"
                       /\ envelope'.currentLevel >= LevelOne \div 1000
     /\ envelope'.state # "Hold"
     /\ envelope.state = "Idle" =>
          /\ envelope.currentLevel = 0
          /\ getNextSample(envelope).currentLevel = 0
          /\ getNextSample(envelope).state = "Idle"]_vars

\* C36 witness: a note whose parameters changed while it sounded has run
\* through Attack and Decay and come to rest in Idle
C36_IdleAfterRetunedNote ==
  /\ envelope.state = "Idle"
  /\ envelope.retuned
  /\ envelope.currentLevel = 0

(***************************************************************************)
(* The envelope in single-precision arithmetic                             *)
(*                                                                         *)
(* currentLevel, attackRate and decayCoeff are floats.  A positive float   *)
(* is [m, e] with 2^23 <= m < 2^24 and value m * 2^e; zero is [0, 0].      *)
(* Results are rounded to the nearest float, ties to the even mantissa.    *)
(* The levels of a note stay above 0.001 / 2, far from the subnormal       *)
(* range.                                                                  *)
(***************************************************************************)
FloatZero == [m |-> 0, e |-> 0]
FloatOne == [m |-> 2^23, e |-> -23]

\* The float nearest to (m + r / unit) * 2^e, for 2^23 <= m < 2^24 and
\* 0 <= r < unit
FloatRound(m, r, unit, e) ==
  LET up == 2 * r > unit \/ (2 * r = unit /\ m % 2 = 1)
      m1 == IF up THEN m + 1 ELSE m
  IN IF m1 = 2^24 THEN [m |-> 2^23, e |-> e + 1] ELSE [m |-> m1, e |-> e]

\* The 48-bit product of two 24-bit mantissas, from their 12-bit halves, as
\* <<H, R>> with product H * 2^24 + R
MantissaProduct(mx, my) ==
  LET mid == (mx \div 4096) * (my % 4096) + (mx % 4096) * (my \div 4096)
      raw == (mid % 4096) * 4096 + (mx % 4096) * (my % 4096)
  IN <<(mx \div 4096) * (my \div 4096) + mid \div 4096 + raw \div 2^24, raw % 2^24>>

\* x * y for positive floats
FloatMul(x, y) ==
  CHOOSE product \in
    {IF p[1] >= 2^23
     THEN FloatRound(p[1], p[2], 2^24, x.e + y.e + 24)
     ELSE FloatRound(2 * p[1] + p[2] \div 2^23, p[2] % 2^23, 2^23, x.e + y.e + 23) :
       p \in {MantissaProduct(x.m, y.m)}} : TRUE

\* x < y for floats that are not negative
FloatLess(x, y) ==
  IF y.m = 0 THEN FALSE
  ELSE IF x.m = 0 THEN TRUE
  ELSE x.e < y.e \/ (x.e = y.e /\ x.m < y.m)

\* x + y for floats that are not negative
FloatAdd(x, y) ==
  IF x.m = 0 THEN y
  ELSE IF y.m = 0 THEN x
  ELSE LET big == IF FloatLess(x, y) THEN y ELSE x
           small == IF FloatLess(x, y) THEN x ELSE y
           k == big.e - small.e
       IN IF k > 25 THEN big
          ELSE LET q == small.m \div 2^k
                   r == small.m % 2^k
                   sum == big.m + q
               IN IF sum < 2^24
                  THEN FloatRound(sum, r, 2^k, big.e)
                  ELSE FloatRound(sum \div 2, (sum % 2) * 2^k + r, 2^(k + 1), big.e + 1)

\* The float nearest to q * 2^e + (r / den) * 2^e, by long division: q is
\* the quotient so far, r < den the remainder
RECURSIVE FloatQuotient(_, _, _, _)
FloatQuotient(q, r, den, e) ==
  IF q >= 2^23 THEN FloatRound(q, r, den, e)
  ELSE FloatQuotient(2 * q + (IF 2 * r >= den THEN 1 ELSE 0),
                     (2 * r) % den, den, e - 1)

\* static_cast<float>(num / den) for 0 < num < den < 2^30
FloatOf(num, den) == FloatQuotient(0, num, den, 0)

\* The comparison constant 0.001f
FloatThreshold == FloatOf(1, 1000)

\* setParameters with a decay coefficient of 1.0f
setParametersFloat_NoDecay(env, attackMs, decayMs) ==
  [env EXCEPT
     !.attackRate = FloatOf(1000, attackMs * env.sampleRate + 1000),
     !.decayCoeff = FloatOne,
     !.retuned = env.state # "Idle"]

\* AdsrEnvelope::setParameters in floats: attackRate is 1 / (attackTimeSec *
\* sampleRate + 1); decayCoeff is exp(-x) for x = 1 / (decayTimeSec *
\* sampleRate) <= 1/800, a float in [0.5, 1) with mantissa 2^24 - K, where
\* K = X - X^2 / 2^25 for X = x * 2^24, here in units of 1/512 (the third
\* term of the series is below 0.01)
setParametersFloat(env, attackMs, decayMs) ==
  LET xf == FloatOf(1000, decayMs * env.sampleRate)
      X512 == xf.m \div 2^(-(xf.e + 33))
      X == Rounded(X512, 512)
      K == Rounded(X512 - Rounded(X * X, 2^16), 512)
  IN [env EXCEPT
        !.attackRate = FloatOf(1000, attackMs * env.sampleRate + 1000),
        !.decayCoeff = [m |-> 2^24 - K, e |-> -24],
        !.retuned = env.state # "Idle"]

\* AdsrEnvelope::trigger with a float level
triggerFloat(env) == [trigger(env) EXCEPT !.currentLevel = FloatZero]

\* AdsrEnvelope::getNextSample in floats; sinceTrigger counts the calls
\* since the trigger
getNextSampleFloat(env) ==
  CASE env.state = "Idle" ->
         [env EXCEPT !.currentLevel = FloatZero, !.sinceTrigger = 0]
    [] env.state = "Attack" ->
         CHOOSE next \in
           {IF ~FloatLess(level, FloatOne)
            THEN [env EXCEPT !.currentLevel = FloatOne, !.state = "Decay",
                             !.sinceTrigger = @ + 1]
            ELSE [env EXCEPT !.currentLevel = level, !.sinceTrigger = @ + 1] :
              level \in {FloatAdd(env.currentLevel, env.attackRate)}} : TRUE
    [] env.state = "Decay" ->
         CHOOSE next \in
           {IF FloatLess(level, FloatThreshold)
            THEN [env EXCEPT !.currentLevel = FloatZero, !.state = "Idle",
                             !.sinceTrigger = 0]
            ELSE [env EXCEPT !.currentLevel = level, !.sinceTrigger = @ + 1] :
              level \in {FloatMul(env.currentLevel, env.decayCoeff)}} : TRUE
    [] OTHER -> env

\* The getNextSample() calls of the audio loop of a block of numSamples
\* samples, for one voice; the range is evaluated by halves
RECURSIVE EnvelopeAudioLoop(_, _)
EnvelopeAudioLoop(env, numSamples) ==
  IF numSamples = 0 THEN env
  ELSE IF numSamples = 1 THEN getNextSampleFloat(env)
  ELSE CHOOSE out \in {EnvelopeAudioLoop(firstHalf, numSamples - numSamples \div 2) :
                          firstHalf \in {EnvelopeAudioLoop(env, numSamples \div 2)}} : TRUE

\* The attack and decay times, in milliseconds, of the fastest and of the
\* slowest envelope the engines set up: the bass with BASS_ATTACK 0.001 s and
\* BASS_DECAY 0.1 s, and with attack 0.5 s and decay 2.0 s
TailTimes == {<<1, 100>>, <<500, 2000>>}

\* The samples in a block, and the number of samples after a trigger at
\* which the model stops following a note
TailBlockSize == 500
TailLimit == 200000

\* The blocks after a trigger at whose start the user has moved the attack
\* and decay parameters
TailRetunePoints == {1 * TailBlockSize, 6 * TailBlockSize}

\* Whether prepareToPlay has run: it sets the sample rate of the host
TailPrepared == envelope.sampleRate = SeqSampleRate

\* prepareToPlay: setSampleRate; the attack and decay times are those the
\* first block will pass
Tail_Prepare ==
  \E t \in TailTimes :
    /\ ~TailPrepared
    /\ envelope' = setParametersFloat(
                     [setSampleRate(DefaultEnvelope, SeqSampleRate)
                        EXCEPT !.currentLevel = FloatZero], t[1], t[2])
    /\ UNCHANGED envelopeRest

\* One processBlock as the bass envelope sees it: the sequencer loop, which
\* triggers the envelope or not (here only an idle one), setParameters with
\* the values of the attack and decay parameters, which are those of the
\* block before unless the user has moved them, and the audio loop
Tail_Block ==
  \E trig \in BOOLEAN, t \in TailTimes :
    /\ TailPrepared
    /\ envelope.sinceTrigger < TailLimit
    /\ trig => envelope.state = "Idle"
    /\ \E tuned \in {setParametersFloat(IF trig THEN triggerFloat(envelope) ELSE envelope,
                                         t[1], t[2])} :
         /\ \/ envelope.state = "Idle"
            \/ envelope.sinceTrigger \in TailRetunePoints
            \/ /\ tuned.attackRate = envelope.attackRate
               /\ tuned.decayCoeff = envelope.decayCoeff
         /\ envelope' = EnvelopeAudioLoop(tuned, TailBlockSize)
    /\ UNCHANGED envelopeRest

TailNext ==
  \/ Tail_Prepare
  \/ Tail_Block

SpecTail == InitBar /\ [][TailNext]_vars

PhasorFrequencies == {-3, -1, 0, 1, 3, PhasorRate, 2 * PhasorRate + 1}

\* The sample rates passed to process
PhasorSampleRates == {-PhasorRate, 0, PhasorRate}

\* The phases, in units, up to which the model follows the phasor
PhasorSpan == 64

\* Everything but the phasor
phasorRest ==
  <<plugin, rhythmVars, melodyVars, fifoVars, uiVars, audioVars, hostTime,
    lastProcessedSampleTime, currentBpm, currentStepAtomic, currentLoopCount,
    lastStepForLoopDetection, ratchetCounters, triggers, boundaries, fired,
    lastBlock, playStart, stops, envelope, stutterFX, savedState, histVars>>

\* One process(frequencyHz, sampleRate) call
Phasor_Process ==
  \E frequencyHz \in PhasorFrequencies, sampleRate \in PhasorSampleRates :
    \E next \in {process(kickPhasor, frequencyHz, sampleRate)} :
      /\ next.phase \in -PhasorSpan .. PhasorSpan
      /\ kickPhasor' = next
      /\ UNCHANGED phasorRest

\* One reset() call
Phasor_Reset ==
  /\ kickPhasor # DefaultPhasor
  /\ kickPhasor' = reset(kickPhasor)
  /\ UNCHANGED phasorRest

PhasorNext ==
  \/ Phasor_Process
  \/ Phasor_Reset

SpecPhasor == InitBar /\ [][PhasorNext]_vars

\* C38: after any sequence of process and reset calls the phase returned
\* lies in [0, 1), and a call with frequencyHz <= 0 or sampleRate <= 0 leaves
\* the phase as it was.
C38_PhaseInRangeAndGuarded ==
  /\ kickPhasor.returned \in 0 .. PhasorRate - 1
  /\ (kickPhasor.call # <<>> /\ (kickPhasor.call[1] <= 0 \/ kickPhasor.call[2] <= 0))
       => kickPhasor.phase = kickPhasor.before

\* C38, the part the code keeps: a call with sampleRate <= 0 leaves the
\* phase as it was, and on a phase in [0, 1) a call with frequencyHz = 0
\* leaves the phase as it was and a call with 0 <= frequencyHz < sampleRate
\* returns a phase in [0, 1)
C38_GuardedBySampleRateOnly ==
  kickPhasor.call # <<>> =>
    /\ kickPhasor.call[2] <= 0 => kickPhasor.phase = kickPhasor.before
    /\ kickPhasor.before \in 0 .. PhasorRate - 1 =>
         /\ kickPhasor.call[1] = 0 => kickPhasor.phase = kickPhasor.before
         /\ kickPhasor.call[1] \in 0 .. kickPhasor.call[2] - 1
              => kickPhasor.returned \in 0 .. PhasorRate - 1

\* C38: a phase that has left [0, 1) upwards stays outside it while the
\* frequency is not negative: one subtraction per call does not bring it back
C38_StaysAboveOne ==
  kickPhasor.phase >= 2 * PhasorRate /\ kickPhasor.before >= 2 * PhasorRate

(***************************************************************************)
(* The stutter effect as the rhythm engine drives it                       *)
(***************************************************************************)

\* The sample rate of the stutter runs, in Hz: the circular buffer holds
\* StutterRate samples
StutterRate == 8

\* The tempos of the host: a sixteenth of 1, 2, 3 samples and one longer
\* than the buffer
StutterBpms == {120, 60, 40, 10}

\* The block sizes of the host
StutterBlockSizes == {1, 3}

\* The number of samples for which the model follows the effect
StutterEnd == 13

\* Everything but the stutter effect
stutterRest ==
  <<plugin, rhythmVars, melodyVars, fifoVars, uiVars, audioVars, hostTime,
    lastProcessedSampleTime, currentBpm, currentStepAtomic, currentLoopCount,
    lastStepForLoopDetection, ratchetCounters, triggers, boundaries, fired,
    lastBlock, playStart, stops, envelope, kickPhasor, savedState, histVars>>

\* prepareToPlay: stutterFX.prepare(sampleRate, samplesPerBlock)
Stutter_Prepare ==
  /\ stutterFX = DefaultStutterFX
  /\ stutterFX' = prepare(stutterFX, StutterRate)
  /\ UNCHANGED stutterRest

\* The stutter section of processBlock for a block of numSamples samples
\* that read the tempo bpm from the host: with the parameter above 0.5, activate() if the effect is not
\* active, then process(); otherwise deactivate()
Stutter_Block ==
  \E above \in BOOLEAN, bpm \in StutterBpms, numSamples \in StutterBlockSizes :
    /\ Len(stutterFX.circularBuffer) > 0
    /\ stutterFX.clock + numSamples <= StutterEnd
    /\ \E fx \in {[stutterFX EXCEPT !.trace = <<>>, !.high = above,
                                    !.clock = @ + numSamples,
                                    !.activations = IF above THEN @ ELSE 0]} :
         stutterFX' =
           IF above
           THEN StutterFX_process(IF ~isActive(fx) THEN activate(fx, bpm) ELSE fx,
                                  stutterFX.clock, numSamples)
           ELSE deactivate(fx)
    /\ UNCHANGED stutterRest

StutterNext ==
  \/ Stutter_Prepare
  \/ Stutter_Block

SpecStutter == InitBar /\ [][StutterNext]_vars

\* The start of the captured segment in the circular buffer
StutterLoopStart ==
  (stutterFX.writePosition - stutterFX.loopLength + Len(stutterFX.circularBuffer))
    % Len(stutterFX.circularBuffer)

\* The parts of C39 other than the pass-through: one activate() per rise of
\* the parameter, an effect that is active exactly while the parameter is
\* up, exactly loopLength samples captured, lying in the buffer from the
\* loop start on, each sample output while playing being the captured
\* sample of its turn in the cycle, capturing and playing never both true,
\* positions inside the buffer and the read position inside the segment
StutterLoops ==
  LET fx == stutterFX
      bufferLen == Len(fx.circularBuffer)
  IN bufferLen > 0 =>
       /\ fx.high => fx.activations = 1 /\ isActive(fx)
       /\ ~fx.high => ~isActive(fx)
       /\ ~(fx.isCapturing /\ fx.isPlaying)
       /\ fx.writePosition \in 0 .. bufferLen - 1
       /\ fx.readPosition \in 0 .. bufferLen - 1
       /\ fx.isCapturing =>
            Len(fx.captured) = fx.capturedSamples /\ fx.capturedSamples < fx.loopLength
       /\ fx.isPlaying =>
            /\ Len(fx.captured) = fx.loopLength
            /\ (fx.readPosition - StutterLoopStart + bufferLen) % bufferLen
                 \in 0 .. fx.loopLength - 1
            /\ \A j \in 0 .. fx.loopLength - 1 :
                 fx.circularBuffer[((StutterLoopStart + j) % bufferLen) + 1]
                   = fx.captured[j + 1]
       /\ \A i \in DOMAIN fx.trace :
            /\ ~(fx.trace[i].isCapturing /\ fx.trace[i].isPlaying)
            /\ fx.trace[i].writePosition \in 0 .. bufferLen - 1
            /\ fx.trace[i].readPosition \in 0 .. bufferLen - 1
            /\ fx.trace[i].capturing \/ fx.trace[i].playing
            /\ fx.trace[i].playing =>
                 fx.trace[i].output
                   = fx.captured[(fx.trace[i].loopIndex % fx.loopLength) + 1]

NoteInScale(m) ==
  \E i \in DOMAIN scales(phrase.scaleName) :
    scales(phrase.scaleName)[i] = (m - phrase.rootNote) % 12

\* |a - b|
Distance(a, b) == IF a >= b THEN a - b ELSE b - a

\* C40: the note the quantizer returns for the pitch n of the phrase lies
\* in 0 .. 127, is in the scale, and no MIDI note of the scale is strictly
\* closer to n, for every n in 0 .. 127, every root and every scale.
C40_NearestInScalePitch ==
  plugin = Melody =>
    \A q \in TriggeredNotes :
      /\ q = quantize(phrase.events[1].pitch, phrase.rootNote, phrase.scaleName)
      /\ q \in 0 .. MaxMidiNote
      /\ NoteInScale(q)
      /\ \A m \in 0 .. MaxMidiNote :
           NoteInScale(m) => Distance(m, phrase.events[1].pitch)
                               >= Distance(q, phrase.events[1].pitch)

\* C40, the part the code keeps: the note returned lies in 0 .. 127, no
\* MIDI note of the scale is strictly closer to n, and for n other than 0
\* and 127 the note returned is in the scale
C40_NearestAndInScaleInside ==
  plugin = Melody =>
    \A q \in TriggeredNotes :
      /\ q = quantize(phrase.events[1].pitch, phrase.rootNote, phrase.scaleName)
      /\ q \in 0 .. MaxMidiNote
      /\ phrase.events[1].pitch \in 1 .. MaxMidiNote - 1 => NoteInScale(q)
      /\ \A m \in 0 .. MaxMidiNote :
           NoteInScale(m) => Distance(m, phrase.events[1].pitch)
                               >= Distance(q, phrase.events[1].pitch)

\* C40: note 0 in Minor on root 3 was triggered as 0, which is not in the
\* scale, while note 1 is
C40_BottomNoteOutOfScale ==
  /\ plugin = Melody
  /\ phrase.events[1].pitch = 0 /\ phrase.rootNote = 3 /\ phrase.scaleName = "Minor"
  /\ TriggeredNotes = {0}
  /\ ~NoteInScale(0) /\ NoteInScale(1)

====
